---- MODULE Spec2Model ----
(***************************************************************************)
(* SafeClaw trust boundary: policy, redaction, audit ledger, plugin        *)
(* runner, plan validation, planner, plan command and dashboard.           *)
(*                                                                         *)
(* Text is modelled as it is: a Python str is a sequence of one-character  *)
(* strings, so that formatting, regular-expression substitution and path   *)
(* parsing are computed character by character.                            *)
(***************************************************************************)
EXTENDS Integers, Sequences, FiniteSets, TLC

(***************************************************************************)
(* Characters and character classes of the regular expressions             *)
(***************************************************************************)
LowerSeq == <<"a", "b", "c", "d", "e", "f", "g", "h", "i", "j", "k", "l", "m", "n", "o", "p", "q", "r", "s", "t", "u", "v", "w", "x", "y", "z">>
UpperSeq == <<"A", "B", "C", "D", "E", "F", "G", "H", "I", "J", "K", "L", "M", "N", "O", "P", "Q", "R", "S", "T", "U", "V", "W", "X", "Y", "Z">>
Lower == {LowerSeq[k] : k \in 1..Len(LowerSeq)}
Upper == {UpperSeq[k] : k \in 1..Len(UpperSeq)}
Digit == {"0", "1", "2", "3", "4", "5", "6", "7", "8", "9"}
\* [A-Za-z0-9]
Alnum == Lower \cup Upper \cup Digit
\* [A-Za-z0-9\-]
AlnumDash == Alnum \cup {"-"}
\* [0-9A-Z]
UpperDigit == Upper \cup Digit
\* \s
Space == {" ", "\t", "\n", "\r", "\f"}
\* [A-Za-z0-9\-._~+/]
TokenChar == Alnum \cup {"-", ".", "_", "~", "+", "/"}

\* str.lower() of one character (re.IGNORECASE compares case-folded)
ToLower(c) ==
  IF c \in Upper THEN LowerSeq[CHOOSE k \in 1..Len(UpperSeq) : UpperSeq[k] = c] ELSE c

\* the literal l occurs in t at position i
Lit(t, i, l) ==
  /\ i + Len(l) - 1 <= Len(t)
  /\ \A k \in 1..Len(l) : t[i + k - 1] = l[k]

\* the same, ignoring case
LitCI(t, i, l) ==
  /\ i + Len(l) - 1 <= Len(t)
  /\ \A k \in 1..Len(l) : ToLower(t[i + k - 1]) = ToLower(l[k])

\* the least element of a non-empty set of integers
Min(S) == CHOOSE x \in S : \A y \in S : x <= y

\* length of the longest run of characters of class C in t from position i
RunLen(t, i, C) ==
  LET stops == {j \in i..Len(t) : t[j] \notin C}
  IN  IF i > Len(t) THEN 0
      ELSE IF stops = {} THEN Len(t) - i + 1
      ELSE Min(stops) - i

\* s repeated n times
Rep(s, n) == [k \in 1..(n * Len(s)) |-> s[((k - 1) % Len(s)) + 1]]

(***************************************************************************)
(* redaction.py: the built-in patterns and redact()                        *)
(***************************************************************************)
\* sk-[A-Za-z0-9]{20,}
OpenAIMin == 20
\* sk-ant-[A-Za-z0-9\-]{20,}
AnthropicMin == 20
\* AKIA[0-9A-Z]{16}
AwsLen == 16
\* ghp_[A-Za-z0-9]{36,}
GhpMin == 36
\* github_pat_[A-Za-z0-9]{20,}
GithubPatMin == 20

L_sk == <<"s", "k", "-">>
L_sk_ant == <<"s", "k", "-", "a", "n", "t", "-">>
L_AKIA == <<"A", "K", "I", "A">>
L_ghp == <<"g", "h", "p", "_">>
L_github_pat == <<"g", "i", "t", "h", "u", "b", "_", "p", "a", "t", "_">>
L_Bearer == <<"B", "e", "a", "r", "e", "r">>
L_BEGIN == <<"-", "-", "-", "-", "-", "B", "E", "G", "I", "N", " ">>
L_END == <<"-", "-", "-", "-", "-", "E", "N", "D", " ">>
L_PRIVATE_KEY == <<"P", "R", "I", "V", "A", "T", "E", " ", "K", "E", "Y", "-", "-", "-", "-", "-">>
KeyAlgs == {<<"R", "S", "A", " ">>, <<"E", "C", " ">>, <<"D", "S", "A", " ">>}

\* _PATTERNS, in list order: the name of each rule
PATTERNS ==
  << <<"O", "P", "E", "N", "A", "I", "_", "K", "E", "Y">>,
     <<"A", "N", "T", "H", "R", "O", "P", "I", "C", "_", "K", "E", "Y">>,
     <<"A", "W", "S", "_", "K", "E", "Y">>,
     <<"G", "I", "T", "H", "U", "B", "_", "T", "O", "K", "E", "N">>,
     <<"G", "I", "T", "H", "U", "B", "_", "P", "A", "T">>,
     <<"B", "E", "A", "R", "E", "R", "_", "T", "O", "K", "E", "N">>,
     <<"P", "R", "I", "V", "A", "T", "E", "_", "K", "E", "Y">> >>

\* literal prefix followed by at least min characters of class C (greedy):
\* the position after the match that starts at i, or 0 when none starts there
PrefixRun(t, i, prefix, C, min) ==
  IF Lit(t, i, prefix) /\ RunLen(t, i + Len(prefix), C) >= min
  THEN i + Len(prefix) + RunLen(t, i + Len(prefix), C)
  ELSE 0

\* AKIA[0-9A-Z]{16}: exactly AwsLen characters of the class
AwsMatch(t, i) ==
  IF Lit(t, i, L_AKIA) /\ RunLen(t, i + Len(L_AKIA), UpperDigit) >= AwsLen
  THEN i + Len(L_AKIA) + AwsLen
  ELSE 0

\* Bearer\s+[A-Za-z0-9\-._~+/]+=*  with re.IGNORECASE
BearerMatch(t, i) ==
  IF ~LitCI(t, i, L_Bearer) THEN 0
  ELSE LET s == i + Len(L_Bearer)
           ws == RunLen(t, s, Space)
           tk == RunLen(t, s + ws, TokenChar)
           eq == RunLen(t, s + ws + tk, {"="})
       IN  IF ws >= 1 /\ tk >= 1 THEN s + ws + tk + eq ELSE 0

\* -----BEGIN (?:RSA |EC |DSA )?PRIVATE KEY-----  (head = L_BEGIN), likewise END
KeyLine(t, i, head) ==
  IF ~Lit(t, i, head) THEN 0
  ELSE LET j == i + Len(head)
           algs == {a \in KeyAlgs : Lit(t, j, a) /\ Lit(t, j + Len(a), L_PRIVATE_KEY)}
       IN  IF algs # {}
           THEN LET a == CHOOSE a \in algs : TRUE
                IN  j + Len(a) + Len(L_PRIVATE_KEY)
           ELSE IF Lit(t, j, L_PRIVATE_KEY) THEN j + Len(L_PRIVATE_KEY) ELSE 0

\* BEGIN line, [\s\S]*? (lazy: up to the first END line), END line
PrivateKeyMatch(t, i) ==
  LET b == KeyLine(t, i, L_BEGIN)
      ends == {j \in b..Len(t) : KeyLine(t, j, L_END) > 0}
  IN  IF b = 0 \/ ends = {} THEN 0
      ELSE KeyLine(t, Min(ends), L_END)

\* pattern.match at position i of rule number k: the end of the match, or 0
MatchEnd(k, t, i) ==
  CASE k = 1 -> PrefixRun(t, i, L_sk, Alnum, OpenAIMin)
    [] k = 2 -> PrefixRun(t, i, L_sk_ant, AlnumDash, AnthropicMin)
    [] k = 3 -> AwsMatch(t, i)
    [] k = 4 -> PrefixRun(t, i, L_ghp, Alnum, GhpMin)
    [] k = 5 -> PrefixRun(t, i, L_github_pat, Alnum, GithubPatMin)
    [] k = 6 -> BearerMatch(t, i)
    [] k = 7 -> PrivateKeyMatch(t, i)

\* pattern.search(t) is not None
HasMatch(k, t) == \E i \in 1..Len(t) : MatchEnd(k, t, i) > 0

\* a marker that reads as a bearer token
Marker_bearer_like(k) == <<"[", "B", "e", "a", "r", "e", "r", " ">> \o PATTERNS[k] \o <<"]">>

\* f"[REDACTED:{name}]"
Marker(k) == <<"[", "R", "E", "D", "A", "C", "T", "E", "D", ":">> \o PATTERNS[k] \o <<"]">>

\* pattern.sub(marker, t): the leftmost match at or after i is replaced, and
\* the scan goes on after it (non-overlapping matches, left to right)
RECURSIVE SubFrom(_, _, _)
SubFrom(k, t, i) ==
  LET starts == {j \in i..Len(t) : MatchEnd(k, t, j) > 0}
  IN  IF starts = {} THEN SubSeq(t, i, Len(t))
      ELSE LET j == Min(starts)
           IN  SubSeq(t, i, j - 1) \o Marker(k) \o SubFrom(k, t, MatchEnd(k, t, j))

\* the loop of redact(): rule k and the rules after it, each on the output of
\* the one before
RECURSIVE RedactFrom(_, _)
RedactFrom(k, t) ==
  IF k > Len(PATTERNS) THEN t ELSE RedactFrom(k + 1, SubFrom(k, t, 1))

redact(text) == RedactFrom(1, text)


(***************************************************************************)
(* pathlib: parsing, joining and resolving paths                           *)
(***************************************************************************)
\* U+0000 in a path string
NUL == "NUL"

\* the working directory of the process, and the one symbolic link of the
\* file system: /proj/lnk -> /etc
Cwd == << <<"p", "r", "o", "j">> >>
LinkAt == << <<"p", "r", "o", "j">>, <<"l", "n", "k">> >>
LinkTarget == << <<"e", "t", "c">> >>

\* s.split("/") from position i
RECURSIVE SplitFrom(_, _)
SplitFrom(s, i) ==
  LET seps == {j \in i..Len(s) : s[j] = "/"}
  IN  IF seps = {} THEN << SubSeq(s, i, Len(s)) >>
      ELSE << SubSeq(s, i, Min(seps) - 1) >> \o SplitFrom(s, Min(seps) + 1)

IsPart(c) == c # <<>> /\ c # <<".">>

\* Path(s): anchored at "/" or not, and its parts ("" and "." are dropped,
\* ".." is kept)
ParsePath(s) ==
  [abs |-> Len(s) > 0 /\ s[1] = "/",
   parts |-> SelectSeq(SplitFrom(s, 1), IsPart)]

\* base / p
PathJoin(base, p) ==
  IF p.abs THEN p ELSE [abs |-> base.abs, parts |-> base.parts \o p.parts]

\* os.path.realpath: the parts are walked left to right, ".." drops the last
\* resolved part, a symbolic link is replaced by its target
RECURSIVE Walk(_, _)
Walk(done, rest) ==
  IF rest = <<>> THEN done
  ELSE LET c == Head(rest)
           np == Append(done, c)
       IN  IF c = <<".", ".">>
           THEN Walk(IF done = <<>> THEN <<>> ELSE SubSeq(done, 1, Len(done) - 1), Tail(rest))
           ELSE Walk(IF np = LinkAt THEN LinkTarget ELSE np, Tail(rest))

\* Path.resolve(): the parts of the absolute, normalised path
Resolve(p) == Walk(<<>>, IF p.abs THEN p.parts ELSE Cwd \o p.parts)

\* Path.resolve() raises ValueError (embedded null byte)
Unresolvable(p) == \E k \in 1..Len(p.parts) : \E i \in 1..Len(p.parts[k]) : p.parts[k][i] = NUL

\* target.relative_to(root) does not raise ValueError
IsUnder(target, root) ==
  Len(root) <= Len(target) /\ SubSeq(target, 1, Len(root)) = root

\* str(path) of a resolved path
RECURSIVE JoinParts(_)
JoinParts(parts) ==
  IF parts = <<>> THEN <<>> ELSE <<"/">> \o Head(parts) \o JoinParts(Tail(parts))

PathStr(parts) == IF parts = <<>> THEN <<"/">> ELSE JoinParts(parts)

\* str(n) of a natural number
DigitSeq == <<"0", "1", "2", "3", "4", "5", "6", "7", "8", "9">>
RECURSIVE IntStr(_)
IntStr(n) == IF n < 10 THEN << DigitSeq[n + 1] >> ELSE IntStr(n \div 10) \o << DigitSeq[(n % 10) + 1] >>

\* x in seq
InSeq(x, seq) == \E k \in 1..Len(seq) : seq[k] = x

(***************************************************************************)
(* policy.py                                                               *)
(***************************************************************************)
\* _deduplicate_plugins keeping the last occurrence of a name, not the first
RECURSIVE DedupLastFrom(_, _, _)
DedupLastFrom(v, k, result) ==
  IF k < 1 THEN result
  ELSE DedupLastFrom(v, k - 1, IF \E i \in 1..Len(result) : result[i] = v[k]
                                THEN result ELSE << v[k] >> \o result)

deduplicate_plugins_keep_last(v) == DedupLastFrom(v, Len(v), <<>>)

\* Policy._deduplicate_plugins: first occurrences, in order
RECURSIVE DedupFrom(_, _, _)
DedupFrom(v, k, result) ==
  IF k > Len(v) THEN result
  ELSE DedupFrom(v, k + 1, IF InSeq(v[k], result) THEN result ELSE Append(result, v[k]))

deduplicate_plugins(v) == DedupFrom(v, 1, <<>>)

\* PlannerConfig() defaults
DefaultMaxSteps == 5
DefaultPlanner ==
  [enabled |-> FALSE, backend |-> "ollama", base_url |-> <<"h", "t", "t", "p", ":", "/", "/", "l", "o", "c", "a", "l", "h", "o", "s", "t", ":", "1", "1", "4", "3", "4">>,
   max_steps |-> DefaultMaxSteps, require_confirmation |-> TRUE]

\* Policy(**data) with an allow-list that defaults to the plugin todo_scan
PolicyOf_todo_scan_by_default(data) ==
  LET has(f) == f \in DOMAIN data
  IN  [project_root |-> IF has("project_root") THEN data.project_root ELSE <<".">>,
       allow_network |-> IF has("allow_network") THEN data.allow_network ELSE FALSE,
       allow_shell |-> IF has("allow_shell") THEN data.allow_shell ELSE FALSE,
       allowed_plugins |-> IF has("allowed_plugins")
                           THEN deduplicate_plugins(data.allowed_plugins) ELSE << <<"t", "o", "d", "o", "_", "s", "c", "a", "n">> >>,
       planner |-> IF has("planner") THEN data.planner ELSE DefaultPlanner,
       dashboard_enabled |-> IF has("dashboard_enabled") THEN data.dashboard_enabled ELSE FALSE]

\* Policy(**data): the fields of data, the defaults for the others
PolicyOf(data) ==
  LET has(f) == f \in DOMAIN data
  IN  [project_root |-> IF has("project_root") THEN data.project_root ELSE <<".">>,
       allow_network |-> IF has("allow_network") THEN data.allow_network ELSE FALSE,
       allow_shell |-> IF has("allow_shell") THEN data.allow_shell ELSE FALSE,
       allowed_plugins |-> IF has("allowed_plugins")
                           THEN deduplicate_plugins(data.allowed_plugins) ELSE <<>>,
       planner |-> IF has("planner") THEN data.planner ELSE DefaultPlanner,
       dashboard_enabled |-> IF has("dashboard_enabled") THEN data.dashboard_enabled ELSE FALSE]

\* Policy.root_path()
root_path(pol) == Resolve(ParsePath(pol.project_root))

(***************************************************************************)
(* audit.py: the ledger .safeclaw/audit.jsonl of the project               *)
(*                                                                         *)
(* A world W is the part of the file system the program writes:            *)
(*   dir    - the directory .safeclaw exists                               *)
(*   exists - the ledger file exists                                       *)
(*   lines  - the records of the ledger file, one per line written         *)
(*   clock  - datetime.now(UTC), a logical time that advances on a write   *)
(***************************************************************************)
AuditEvent(action, status, detail, touched_files) ==
  [action |-> action, status |-> status, detail |-> detail, touched_files |-> touched_files]

\* U+2028 in a text: json.dumps(ensure_ascii=False) writes it unescaped, and
\* str.splitlines() breaks a line at it
LS == "LS"
HasRawLineBreak(text) == \E i \in 1..Len(text) : text[i] = LS

\* write_audit opening the ledger with "w" in place of "a": the new line
\* replaces the file
write_audit_truncating(W, event) ==
  [dir |-> TRUE,
   exists |-> TRUE,
   lines |-> << [timestamp |-> W.clock,
                 action |-> event.action,
                 status |-> event.status,
                 detail |-> redact(event.detail),
                 touched_files |-> event.touched_files] >>,
   clock |-> W.clock + 1]

\* write_audit without the call of redact
write_audit_unredacted(W, event) ==
  [dir |-> TRUE,
   exists |-> TRUE,
   lines |-> Append(W.lines,
                    [timestamp |-> W.clock,
                     action |-> event.action,
                     status |-> event.status,
                     detail |-> event.detail,
                     touched_files |-> event.touched_files]),
   clock |-> W.clock + 1]

\* write_audit: redact the detail, stamp the time, append one line
write_audit(W, event) ==
  [dir |-> TRUE,
   exists |-> TRUE,
   lines |-> Append(W.lines,
                    [timestamp |-> W.clock,
                     action |-> event.action,
                     status |-> event.status,
                     detail |-> redact(event.detail),
                     touched_files |-> event.touched_files]),
   clock |-> W.clock + 1]

\* entries[-last_n:] of Python: a negative start counts from the end and is
\* clipped at 0, a start that is not negative counts from the front
SliceFromMinus(entries, last_n) ==
  LET len == Len(entries)
      start == IF -last_n < 0
               THEN (IF len - last_n < 0 THEN 0 ELSE len - last_n)
               ELSE (IF -last_n > len THEN len ELSE -last_n)
  IN  SubSeq(entries, start + 1, len)

\* reversed(seq)
Reversed(seq) == [k \in 1..Len(seq) |-> seq[Len(seq) + 1 - k]]

\* a line of the file that str.splitlines() cuts in two: json.loads raises
\* JSONDecodeError on the pieces
TornLine(rec) ==
  \/ HasRawLineBreak(rec.action)
  \/ HasRawLineBreak(rec.detail)
  \/ \E k \in 1..Len(rec.touched_files) : HasRawLineBreak(rec.touched_files[k])

\* read_audit without the test that the ledger file exists: read_text
\* raises FileNotFoundError
read_audit_unguarded(W, last_n) ==
  IF ~W.exists THEN [raised |-> TRUE, entries |-> <<>>]
  ELSE IF \E k \in 1..Len(W.lines) : TornLine(W.lines[k])
       THEN [raised |-> TRUE, entries |-> <<>>]
       ELSE [raised |-> FALSE, entries |-> Reversed(SliceFromMinus(W.lines, last_n))]

\* read_audit: [] without a ledger file; else every line is parsed and the
\* last last_n entries are returned, newest first
read_audit(W, last_n) ==
  IF ~W.exists THEN [raised |-> FALSE, entries |-> <<>>]
  ELSE IF \E k \in 1..Len(W.lines) : TornLine(W.lines[k])
       THEN [raised |-> TRUE, entries |-> <<>>]
       ELSE [raised |-> FALSE, entries |-> Reversed(SliceFromMinus(W.lines, last_n))]

\* ---- the bytes of one line, and the file object that writes them ----

\* json.dumps(text, ensure_ascii=False) of a string: quotes, backslashes and
\* line feeds are escaped, U+2028 is written as it is
RECURSIVE Escaped(_)
Escaped(text) ==
  IF text = <<>> THEN <<>>
  ELSE (CASE Head(text) = "\"" -> <<"\\", "\"">>
          [] Head(text) = "\\" -> <<"\\", "\\">>
          [] Head(text) = "\n" -> <<"\\", "n">>
          [] OTHER -> << Head(text) >>) \o Escaped(Tail(text))

JsonString(text) == <<"\"">> \o Escaped(text) \o <<"\"">>

RECURSIVE JsonItems(_)
JsonItems(items) ==
  IF items = <<>> THEN <<>>
  ELSE JsonString(Head(items))
         \o (IF Tail(items) = <<>> THEN <<>> ELSE <<",", " ">>)
         \o JsonItems(Tail(items))

\* the status of a record as text
StatusText(status) ==
  CASE status = "ok" -> <<"o", "k">>
    [] status = "denied" -> <<"d", "e", "n", "i", "e", "d">>
    [] status = "error" -> <<"e", "r", "r", "o", "r">>
    [] status = "request" -> <<"r", "e", "q", "u", "e", "s", "t">>

\* asdict(event) with the detail redacted and the timestamp added
audit_record(event, now) ==
  [timestamp |-> now,
   action |-> event.action,
   status |-> event.status,
   detail |-> redact(event.detail),
   touched_files |-> event.touched_files]

\* json.dumps(record, ensure_ascii=False): the keys in the order of the
\* fields of AuditEvent, the timestamp last
dumps(record) ==
  <<"{", "\"", "a", "c", "t", "i", "o", "n", "\"", ":", " ">> \o JsonString(record.action)
    \o <<",", " ", "\"", "s", "t", "a", "t", "u", "s", "\"", ":", " ">> \o JsonString(StatusText(record.status))
    \o <<",", " ", "\"", "d", "e", "t", "a", "i", "l", "\"", ":", " ">> \o JsonString(record.detail)
    \o <<",", " ", "\"", "t", "o", "u", "c", "h", "e", "d", "_", "f", "i", "l", "e", "s", "\"", ":", " ", "[">> \o JsonItems(record.touched_files)
    \o <<"]", ",", " ", "\"", "t", "i", "m", "e", "s", "t", "a", "m", "p", "\"", ":", " ">> \o JsonString(IntStr(record.timestamp)) \o <<"}">>

\* the size of the buffer of a file opened by open(), and the size at which
\* the text layer hands its pending text to the buffer (8192 both), scaled
\* to the lines of the model
BufferSize == 96
ChunkSize == BufferSize

\* a file object of open("a"): the text pending in the text layer, the bytes
\* in the buffer, and the write(2) calls issued on the descriptor, each of
\* which appends its bytes at the end of the file
NewFile == [pending |-> <<>>, buffer |-> <<>>, raw |-> <<>>]

\* BufferedWriter.flush: the buffer goes out in one write(2)
BufferedWriter_flush(f) ==
  IF f.buffer = <<>> THEN f
  ELSE [pending |-> f.pending, buffer |-> <<>>, raw |-> Append(f.raw, f.buffer)]

\* BufferedWriter.write(b): b joins the buffer when it fits; else the buffer
\* is flushed, and b goes out in one write(2) when it is larger than the
\* buffer, into the buffer when it is not
BufferedWriter_write(f, b) ==
  IF Len(b) <= BufferSize - Len(f.buffer)
  THEN [pending |-> f.pending, buffer |-> f.buffer \o b, raw |-> f.raw]
  ELSE LET g == BufferedWriter_flush(f)
       IN  IF Len(b) > BufferSize
           THEN [pending |-> g.pending, buffer |-> <<>>, raw |-> Append(g.raw, b)]
           ELSE [pending |-> g.pending, buffer |-> b, raw |-> g.raw]

\* the text layer hands its pending text to the buffer as one bytes object
TextIOWrapper_flush(f) ==
  IF f.pending = <<>> THEN f
  ELSE BufferedWriter_write([pending |-> <<>>, buffer |-> f.buffer, raw |-> f.raw], f.pending)

\* TextIOWrapper.write(text)
TextIOWrapper_write(f, text) ==
  LET g == IF Len(f.pending) + Len(text) > ChunkSize THEN TextIOWrapper_flush(f) ELSE f
      h == [pending |-> g.pending \o text, buffer |-> g.buffer, raw |-> g.raw]
  IN  IF Len(h.pending) >= ChunkSize THEN TextIOWrapper_flush(h) ELSE h

\* leaving the with block closes the file: both layers are flushed
fh_close(f) == BufferedWriter_flush(TextIOWrapper_flush(f))

\* the line written by two calls of fh.write, the record and then the line feed
fh_write_newline_apart(f, record) ==
  TextIOWrapper_write(TextIOWrapper_write(f, dumps(record)), <<"\n">>)

\* fh.write(json.dumps(record, ensure_ascii=False) + "\n")
fh_write(f, record) == TextIOWrapper_write(f, dumps(record) \o <<"\n">>)

\* what one write(2) leaves in the ledger: a record when the bytes are its
\* whole line, part of a line otherwise
Written(bytes, record) ==
  IF bytes = dumps(record) \o <<"\n">> THEN record ELSE [part |-> bytes]

\* the bytes of the ledger file
RECURSIVE FileText(_)
FileText(lines) ==
  IF lines = <<>> THEN <<>>
  ELSE (IF "part" \in DOMAIN Head(lines) THEN Head(lines).part
        ELSE dumps(Head(lines)) \o <<"\n">>) \o FileText(Tail(lines))

\* the lines of a text, cut at the line feeds
RECURSIVE LinesFrom(_, _)
LinesFrom(text, i) ==
  IF i > Len(text) THEN <<>>
  ELSE LET ends == {j \in i..Len(text) : text[j] = "\n"}
       IN  IF ends = {} THEN << SubSeq(text, i, Len(text)) >>
           ELSE << SubSeq(text, i, Min(ends) - 1) >> \o LinesFrom(text, Min(ends) + 1)

(***************************************************************************)
(* runner.py                                                               *)
(***************************************************************************)
N_todo_scan == <<"t", "o", "d", "o", "_", "s", "c", "a", "n">>
N_log_summarize == <<"l", "o", "g", "_", "s", "u", "m", "m", "a", "r", "i", "z", "e">>
N_secrets_scan == <<"s", "e", "c", "r", "e", "t", "s", "_", "s", "c", "a", "n">>
N_deps_audit == <<"d", "e", "p", "s", "_", "a", "u", "d", "i", "t">>
N_repo_stats == <<"r", "e", "p", "o", "_", "s", "t", "a", "t", "s">>

\* _PLUGIN_REGISTRY after _register_builtins()
Registry == {N_todo_scan, N_log_summarize, N_secrets_scan, N_deps_audit, N_repo_stats}

RunResult(ok, message, touched_files) ==
  [ok |-> ok, message |-> message, touched_files |-> touched_files]

\* the outcome of a call: it returned result, or raised exc; W is the world
\* it leaves, invoked tells whether the plugin's run function was called,
\* trace lists what happened in order and records the audit lines it wrote
Returned(W, result, invoked, trace) ==
  [W |-> W, raised |-> FALSE, exc |-> "", result |-> result, invoked |-> invoked, trace |-> trace]

Raised(W, exc, invoked, trace) ==
  [W |-> W, raised |-> TRUE, exc |-> exc, result |-> RunResult(FALSE, <<>>, <<>>),
   invoked |-> invoked, trace |-> trace]

MsgNotAllowed(plugin_name) == <<"P", "l", "u", "g", "i", "n", " ", "'">> \o plugin_name \o <<"'", " ", "i", "s", " ", "n", "o", "t", " ", "i", "n", " ", "t", "h", "e", " ", "a", "l", "l", "o", "w", "e", "d", " ", "l", "i", "s", "t">>
MsgNotRegistered(plugin_name) == <<"P", "l", "u", "g", "i", "n", " ", "'">> \o plugin_name \o <<"'", " ", "i", "s", " ", "n", "o", "t", " ", "r", "e", "g", "i", "s", "t", "e", "r", "e", "d">>
\* the refusal of a target worded without the phrase callers look for
MsgOutside_reworded(target, root) ==
  <<"T", "a", "r", "g", "e", "t", " ", "p", "a", "t", "h", " ", "'">> \o PathStr(target) \o <<"'", " ", "i", "s", " ", "n", "o", "t", " ", "a", "l", "l", "o", "w", "e", "d">>

MsgOutside(target, root) ==
  <<"T", "a", "r", "g", "e", "t", " ", "p", "a", "t", "h", " ", "'">> \o PathStr(target) \o <<"'", " ", "i", "s", " ", "o", "u", "t", "s", "i", "d", "e", " ", "p", "r", "o", "j", "e", "c", "t", " ", "r", "o", "o", "t", " ", "'">> \o PathStr(root) \o <<"'">>
MsgRaised(plugin_name, exc) == <<"P", "l", "u", "g", "i", "n", " ", "'">> \o plugin_name \o <<"'", " ", "r", "a", "i", "s", "e", "d", " ", "a", "n", " ", "e", "x", "c", "e", "p", "t", "i", "o", "n", ":", " ">> \o exc

\* a gating branch that returns its result without recording the refusal
GateExit_unrecorded(W, plugin_name, status, msg) ==
  Returned(W, RunResult(FALSE, msg, <<>>), FALSE, <<"return">>)

\* a gating branch: write_audit(...), then return RunResult(ok=False, message=msg)
GateExit(W, plugin_name, status, msg) ==
  Returned(write_audit(W, AuditEvent(plugin_name, status, msg, <<>>)),
           RunResult(FALSE, msg, <<>>), FALSE, <<"audit", "return">>)

\* the try block without its except branch: what the plugin raises leaves
\* run_plugin
ExecutePlugin_uncaught(W, plugin_name, plugin) ==
  IF plugin.kind = "ok"
  THEN Returned(write_audit(W, AuditEvent(plugin_name, "ok", plugin.text, plugin.touched)),
                RunResult(TRUE, plugin.text, plugin.touched), TRUE,
                <<"invoke", "audit", "return">>)
  ELSE Raised(W, plugin.text, TRUE, <<"invoke", "raise">>)

\* the try block with a record of success that leaves the touched files out
ExecutePlugin_files_unrecorded(W, plugin_name, plugin) ==
  IF plugin.kind = "ok"
  THEN Returned(write_audit(W, AuditEvent(plugin_name, "ok", plugin.text, <<>>)),
                RunResult(TRUE, plugin.text, plugin.touched), TRUE,
                <<"invoke", "audit", "return">>)
  ELSE Returned(write_audit(W, AuditEvent(plugin_name, "error",
                                          MsgRaised(plugin_name, plugin.text), <<>>)),
                RunResult(FALSE, MsgRaised(plugin_name, plugin.text), <<>>), TRUE,
                <<"invoke", "caught", "audit", "return">>)

\* the try block: the plugin runs; plugin is what it does, [kind, text, touched]:
\* kind "ok", it returns (text, touched); kind "raise", it raises an Exception
\* whose str() is text, which the except branch records
ExecutePlugin(W, plugin_name, plugin) ==
  IF plugin.kind = "ok"
  THEN Returned(write_audit(W, AuditEvent(plugin_name, "ok", plugin.text, plugin.touched)),
                RunResult(TRUE, plugin.text, plugin.touched), TRUE,
                <<"invoke", "audit", "return">>)
  ELSE Returned(write_audit(W, AuditEvent(plugin_name, "error",
                                          MsgRaised(plugin_name, plugin.text), <<>>)),
                RunResult(FALSE, MsgRaised(plugin_name, plugin.text), <<>>), TRUE,
                <<"invoke", "caught", "audit", "return">>)

\* run_plugin without the check of the target against the project root
run_plugin_any_target(W, policy, plugin_name, target_path, plugin) ==
  IF ~InSeq(plugin_name, policy.allowed_plugins)
  THEN GateExit(W, plugin_name, "denied", MsgNotAllowed(plugin_name))
  ELSE IF plugin_name \notin Registry
  THEN GateExit(W, plugin_name, "error", MsgNotRegistered(plugin_name))
  ELSE IF Unresolvable(ParsePath(target_path))
  THEN Raised(W, "ValueError", FALSE, <<"raise">>)
  ELSE ExecutePlugin(W, plugin_name, plugin)

\* run_plugin with the registry looked up before the allow-list
run_plugin_registry_first(W, policy, plugin_name, target_path, plugin) ==
  LET root == root_path(policy)
      path == ParsePath(target_path)
  IN  IF plugin_name \notin Registry
      THEN GateExit(W, plugin_name, "error", MsgNotRegistered(plugin_name))
      ELSE IF ~InSeq(plugin_name, policy.allowed_plugins)
      THEN GateExit(W, plugin_name, "denied", MsgNotAllowed(plugin_name))
      ELSE IF Unresolvable(path)
      THEN Raised(W, "ValueError", FALSE, <<"raise">>)
      ELSE IF ~IsUnder(Resolve(path), root)
      THEN GateExit(W, plugin_name, "denied", MsgOutside(Resolve(path), root))
      ELSE ExecutePlugin(W, plugin_name, plugin)

\* run_plugin(policy, plugin_name, target_path)
run_plugin(W, policy, plugin_name, target_path, plugin) ==
  LET root == root_path(policy)
      path == ParsePath(target_path)
  IN  IF ~InSeq(plugin_name, policy.allowed_plugins)
      THEN GateExit(W, plugin_name, "denied", MsgNotAllowed(plugin_name))
      ELSE IF plugin_name \notin Registry
      THEN GateExit(W, plugin_name, "error", MsgNotRegistered(plugin_name))
      ELSE IF Unresolvable(path)
      THEN Raised(W, "ValueError", FALSE, <<"raise">>)
      ELSE IF ~IsUnder(Resolve(path), root)
      THEN GateExit(W, plugin_name, "denied", MsgOutside(Resolve(path), root))
      ELSE ExecutePlugin(W, plugin_name, plugin)

(***************************************************************************)
(* planner.py: plan parsing and validation                                 *)
(***************************************************************************)
PlanStep(plugin, target, reason) == [plugin |-> plugin, target |-> target, reason |-> reason]

\* A raw backend response is modelled by its structure:
\*   form   - "empty" (nothing but white space), "garbage" (no JSON) or "json"
\*   fenced - the text is wrapped in ``` / ```json code fences
\*   data   - the JSON value: [t |-> "object", keys, steps], [t |-> "list"], ...
\* steps is the value under the key "steps": [t |-> "list", items], or another
\* JSON value; an item is [t |-> "object", has_plugin, has_target, step] or
\* another JSON value. A string and an object are iterable as a list is:
\* their items are the characters and the keys, [t |-> "string"] each.
\* the kinds of JSON value that "for s in data['steps']" iterates over
Iterable == {"list", "string", "object"}
WellFormedItem(item) == item.t = "object" /\ item.has_plugin /\ item.has_target

\* _parse_plan_json(raw): the plan, or the error raised
\* (PlanStep(**s) raises TypeError when s is no mapping and pydantic's
\* ValidationError when a required field is missing; iterating a "steps" value
\* that is a number or null raises TypeError; a "steps" value that is an empty
\* string or an empty object gives a plan without steps)
parse_plan_json(raw) ==
  IF raw.form = "empty"
  THEN [raised |-> TRUE, exc |-> "PlanParseError", raw_response |-> raw, steps |-> <<>>]
  ELSE IF raw.form = "garbage"
  THEN [raised |-> TRUE, exc |-> "PlanParseError", raw_response |-> raw, steps |-> <<>>]
  ELSE IF raw.data.t # "object" \/ ~raw.data.has_steps
  THEN [raised |-> TRUE, exc |-> "PlanParseError", raw_response |-> raw, steps |-> <<>>]
  ELSE IF raw.data.steps.t \notin Iterable
  THEN [raised |-> TRUE, exc |-> "TypeError", raw_response |-> raw, steps |-> <<>>]
  ELSE LET items == raw.data.steps.items
           bad == {k \in 1..Len(items) : ~WellFormedItem(items[k])}
       IN  IF bad # {}
           THEN [raised |-> TRUE,
                 exc |-> IF items[Min(bad)].t = "object" THEN "ValidationError" ELSE "TypeError",
                 raw_response |-> raw, steps |-> <<>>]
           ELSE [raised |-> FALSE, exc |-> "", raw_response |-> raw,
                 steps |-> [k \in 1..Len(items) |-> items[k].step]]

MsgTooLong(n, max) == <<"P", "l", "a", "n", " ", "h", "a", "s", " ">> \o IntStr(n) \o <<" ", "s", "t", "e", "p", "s", " ", "(", "m", "a", "x", " ">> \o IntStr(max) \o <<")">>
MsgStepNotAllowed(plugin) == <<"P", "l", "u", "g", "i", "n", " ", "'">> \o plugin \o <<"'", " ", "i", "s", " ", "n", "o", "t", " ", "a", "l", "l", "o", "w", "e", "d">>
MsgStepOutside(target) == <<"T", "a", "r", "g", "e", "t", " ", "'">> \o target \o <<"'", " ", "i", "s", " ", "o", "u", "t", "s", "i", "d", "e", " ", "p", "r", "o", "j", "e", "c", "t", " ", "r", "o", "o", "t">>

\* the loop of validate_plan from step k on, rejected collected so far;
\* (root / step.target).resolve() raises ValueError on an embedded null byte
RECURSIVE ValidateFrom(_, _, _, _)
ValidateFrom(steps, policy, k, rejected) ==
  IF k > Len(steps)
  THEN [raised |-> FALSE, validated |-> (Len(rejected) = 0), rejected_steps |-> rejected]
  ELSE LET step == steps[k]
           root == root_path(policy)
           path == PathJoin([abs |-> TRUE, parts |-> root], ParsePath(step.target))
       IN  IF ~InSeq(step.plugin, policy.allowed_plugins)
           THEN ValidateFrom(steps, policy, k + 1, Append(rejected, MsgStepNotAllowed(step.plugin)))
           ELSE IF Unresolvable(path)
           THEN [raised |-> TRUE, validated |-> FALSE, rejected_steps |-> rejected]
           ELSE IF ~IsUnder(Resolve(path), root)
           THEN ValidateFrom(steps, policy, k + 1, Append(rejected, MsgStepOutside(step.target)))
           ELSE ValidateFrom(steps, policy, k + 1, rejected)

\* validate_plan leaving its loop at the first rejected step
validate_plan_first_only(steps, policy) ==
  IF Len(steps) > policy.planner.max_steps
  THEN [raised |-> FALSE, validated |-> FALSE,
        rejected_steps |-> << MsgTooLong(Len(steps), policy.planner.max_steps) >>]
  ELSE LET all == ValidateFrom(steps, policy, 1, <<>>)
       IN  IF all.rejected_steps = <<>> THEN all
           ELSE [all EXCEPT !.rejected_steps = << all.rejected_steps[1] >>]

\* validate_plan answering an over-long plan without a rejection message
validate_plan_silent_on_length(steps, policy) ==
  IF Len(steps) > policy.planner.max_steps
  THEN [raised |-> FALSE, validated |-> FALSE, rejected_steps |-> <<>>]
  ELSE ValidateFrom(steps, policy, 1, <<>>)

\* validate_plan checking the steps of an over-long plan before it rejects it
validate_plan_steps_first(steps, policy) ==
  LET all == ValidateFrom(steps, policy, 1, <<>>)
  IN  IF Len(steps) > policy.planner.max_steps /\ ~all.raised
      THEN [raised |-> FALSE, validated |-> FALSE,
            rejected_steps |-> Append(all.rejected_steps,
                                      MsgTooLong(Len(steps), policy.planner.max_steps))]
      ELSE all

\* validate_plan(plan, policy)
validate_plan(steps, policy) ==
  IF Len(steps) > policy.planner.max_steps
  THEN [raised |-> FALSE, validated |-> FALSE,
        rejected_steps |-> << MsgTooLong(Len(steps), policy.planner.max_steps) >>]
  ELSE ValidateFrom(steps, policy, 1, <<>>)

(***************************************************************************)
(* planner.py: Planner                                                     *)
(***************************************************************************)
\* needle in haystack
Contains(haystack, needle) == \E i \in 1..Len(haystack) : Lit(haystack, i, needle)

\* str.lower()
LowerStr(s) == [k \in 1..Len(s) |-> ToLower(s[k])]

\* _is_local_ollama(policy)
is_local_ollama(policy) ==
  /\ policy.planner.backend = "ollama"
  /\ \/ Contains(LowerStr(policy.planner.base_url), <<"l", "o", "c", "a", "l", "h", "o", "s", "t">>)
     \/ Contains(LowerStr(policy.planner.base_url), <<"1", "2", "7", ".", "0", ".", "0", ".", "1">>)

\* Planner._check_enabled: the error it raises, "" when it raises none
check_enabled(policy) ==
  IF ~policy.planner.enabled THEN "PlannerDisabledError"
  ELSE IF ~policy.allow_network /\ ~is_local_ollama(policy) THEN "PlanNetworkError"
  ELSE ""

\* _BACKENDS
Backends == {"ollama", "openai", "anthropic"}

\* the outcome of Planner.plan
PlanOutcome(W, raised, exc, steps, called, trace) ==
  [W |-> W, raised |-> raised, exc |-> exc, steps |-> steps, called |-> called, trace |-> trace]

\* Planner.plan after its request record: the backend's error, the parse
\* error, or the "ok" record and the plan; a backend call that never
\* completes (kind "hang") leaves the call at backend.call
planner_called(W1, backend, parsed) ==
  IF backend.kind = "hang"
  THEN PlanOutcome(W1, FALSE, "", <<>>, TRUE, <<"audit", "call">>)
  ELSE IF backend.kind # "text"
  THEN PlanOutcome(W1, TRUE, backend.kind, <<>>, TRUE, <<"audit", "call", "raise">>)
  ELSE IF parsed.raised
  THEN PlanOutcome(W1, TRUE, parsed.exc, <<>>, TRUE, <<"audit", "call", "raise">>)
  ELSE PlanOutcome(
         write_audit(W1, AuditEvent(<<"p", "l", "a", "n", "n", "e", "r">>, "ok",
                       <<"G", "e", "n", "e", "r", "a", "t", "e", "d", " ">> \o IntStr(Len(parsed.steps)) \o <<" ", "s", "t", "e", "p", "(", "s", ")">>, <<>>)),
         FALSE, "", parsed.steps, TRUE, <<"audit", "call", "audit", "return">>)

\* Planner.plan calling the backend first and writing its request record
\* only when the call has returned
planner_checked_call_first(W, policy, task, backend, disabled) ==
  IF disabled # ""
  THEN PlanOutcome(W, TRUE, disabled, <<>>, FALSE, <<"raise">>)
  ELSE IF policy.planner.backend \notin Backends
  THEN PlanOutcome(W, TRUE, "PlannerError", <<>>, FALSE, <<"raise">>)
  ELSE IF backend.kind = "text"
  THEN planner_called(write_audit(W, AuditEvent(<<"p", "l", "a", "n", "n", "e", "r">>, "request", <<"T", "a", "s", "k", ":", " ">> \o task, <<>>)),
                      backend, parse_plan_json(backend.raw))
  ELSE planner_called(W, backend, parse_plan_json(backend.raw))

planner_checked(W, policy, task, backend, disabled) ==
  IF disabled # ""
  THEN PlanOutcome(W, TRUE, disabled, <<>>, FALSE, <<"raise">>)
  ELSE IF policy.planner.backend \notin Backends
  THEN PlanOutcome(W, TRUE, "PlannerError", <<>>, FALSE, <<"raise">>)
  ELSE planner_called(write_audit(W, AuditEvent(<<"p", "l", "a", "n", "n", "e", "r">>, "request", <<"T", "a", "s", "k", ":", " ">> \o task, <<>>)),
                      backend, parse_plan_json(backend.raw))

\* Planner.plan(task); backend is what backend.call does: [kind, raw] with
\* kind "text" (it returns raw), or the error it raises
planner_plan(W, policy, task, backend) ==
  planner_checked(W, policy, task, backend, check_enabled(policy))

(***************************************************************************)
(* The plan command (cli.py) and run_plan                                  *)
(***************************************************************************)
\* what is kept of one run_plugin call: its arguments, the number of ledger
\* lines before and after it, and its outcome
RunRec(policy, plugin_name, target_path, plugin, before, out) ==
  [policy |-> policy, plugin_name |-> plugin_name, target_path |-> target_path,
   plugin |-> plugin, before |-> before, after |-> Len(out.W.lines),
   raised |-> out.raised, exc |-> out.exc, result |-> out.result,
   invoked |-> out.invoked, trace |-> out.trace]

\* run_plan(policy, plan): the steps go through run_plugin one after the
\* other, up to the first one that fails; plugins[k] is what the plugin of
\* step k does when it runs
RECURSIVE RunPlanFrom(_, _, _, _, _, _)
RunPlanStep(policy, steps, plugins, k, runs, before, out) ==
  IF out.raised \/ ~out.result.ok
  THEN [W |-> out.W, raised |-> out.raised,
        runs |-> Append(runs, RunRec(policy, steps[k].plugin, steps[k].target, plugins[k], before, out))]
  ELSE RunPlanFrom(out.W, policy, steps, plugins, k + 1,
                   Append(runs, RunRec(policy, steps[k].plugin, steps[k].target, plugins[k], before, out)))

RunPlanFrom(W, policy, steps, plugins, k, runs) ==
  IF k > Len(steps) THEN [W |-> W, raised |-> FALSE, runs |-> runs]
  ELSE RunPlanStep(policy, steps, plugins, k, runs, Len(W.lines),
                   run_plugin(W, policy, steps[k].plugin, steps[k].target, plugins[k]))

run_plan(W, policy, steps, plugins) == RunPlanFrom(W, policy, steps, plugins, 1, <<>>)

\* the planner errors plan_cmd catches and turns into exit code 1
CaughtByPlanCmd ==
  {"PlannerDisabledError", "PlanNetworkError", "PlanConnectionError", "PlanParseError"}

NoValidation == [raised |-> FALSE, validated |-> FALSE, rejected_steps |-> <<>>]

\* the outcome of plan_cmd: exit is "done" (returned), "exit1" (typer.Exit(1))
\* or "crash" (an exception left the command); made tells whether a plan was
\* generated, checked whether validate_plan returned, prompted whether the
\* user was asked, runs are the run_plugin calls made
PlanCmdOutcome(W, exit, plan, vr, made, checked, prompted, runs) ==
  [W |-> W, exit |-> exit, steps |-> plan.steps, planner |-> plan, validation |-> vr,
   made |-> made, checked |-> checked, prompted |-> prompted, runs |-> runs]

\* plan_cmd: "Execute", the call of run_plan and the report of its results
plan_cmd_ran(plan, vr, prompted, exec) ==
  PlanCmdOutcome(exec.W, IF exec.raised THEN "crash" ELSE "done",
                 plan, vr, TRUE, TRUE, prompted, exec.runs)

plan_cmd_execute(policy, plugins, plan, vr, prompted) ==
  plan_cmd_ran(plan, vr, prompted, run_plan(plan.W, policy, plan.steps, plugins))

\* plan_cmd without the exit on a plan that is not validated
plan_cmd_unvalidated(policy, dry_run, auto, confirm, plugins, plan, vr) ==
  IF vr.raised
  THEN PlanCmdOutcome(plan.W, "crash", plan, vr, TRUE, FALSE, FALSE, <<>>)
  ELSE IF dry_run
  THEN PlanCmdOutcome(plan.W, "done", plan, vr, TRUE, TRUE, FALSE, <<>>)
  ELSE IF policy.planner.require_confirmation /\ ~auto
  THEN IF ~confirm
       THEN PlanCmdOutcome(plan.W, "done", plan, vr, TRUE, TRUE, TRUE, <<>>)
       ELSE plan_cmd_execute(policy, plugins, plan, vr, TRUE)
  ELSE IF auto /\ policy.planner.require_confirmation
  THEN PlanCmdOutcome(plan.W, "exit1", plan, vr, TRUE, TRUE, FALSE, <<>>)
  ELSE plan_cmd_execute(policy, plugins, plan, vr, FALSE)

\* plan_cmd with --auto taken as the answer to the confirmation
plan_cmd_auto_confirms(policy, dry_run, auto, confirm, plugins, plan, vr) ==
  IF vr.raised
  THEN PlanCmdOutcome(plan.W, "crash", plan, vr, TRUE, FALSE, FALSE, <<>>)
  ELSE IF ~vr.validated
  THEN PlanCmdOutcome(plan.W, "exit1", plan, vr, TRUE, TRUE, FALSE, <<>>)
  ELSE IF dry_run
  THEN PlanCmdOutcome(plan.W, "done", plan, vr, TRUE, TRUE, FALSE, <<>>)
  ELSE IF policy.planner.require_confirmation /\ ~auto
  THEN IF ~confirm
       THEN PlanCmdOutcome(plan.W, "done", plan, vr, TRUE, TRUE, TRUE, <<>>)
       ELSE plan_cmd_execute(policy, plugins, plan, vr, TRUE)
  ELSE plan_cmd_execute(policy, plugins, plan, vr, FALSE)

\* plan_cmd from the validation result on: the exit on a plan that is not
\* validated, the dry run, and the confirmation; confirm is the user's
\* answer to "Execute this plan?", should it be asked
plan_cmd_validated(policy, dry_run, auto, confirm, plugins, plan, vr) ==
  IF vr.raised
  THEN PlanCmdOutcome(plan.W, "crash", plan, vr, TRUE, FALSE, FALSE, <<>>)
  ELSE IF ~vr.validated
  THEN PlanCmdOutcome(plan.W, "exit1", plan, vr, TRUE, TRUE, FALSE, <<>>)
  ELSE IF dry_run
  THEN PlanCmdOutcome(plan.W, "done", plan, vr, TRUE, TRUE, FALSE, <<>>)
  ELSE IF policy.planner.require_confirmation /\ ~auto
  THEN IF ~confirm
       THEN PlanCmdOutcome(plan.W, "done", plan, vr, TRUE, TRUE, TRUE, <<>>)
       ELSE plan_cmd_execute(policy, plugins, plan, vr, TRUE)
  ELSE IF auto /\ policy.planner.require_confirmation
  THEN PlanCmdOutcome(plan.W, "exit1", plan, vr, TRUE, TRUE, FALSE, <<>>)
  ELSE plan_cmd_execute(policy, plugins, plan, vr, FALSE)

\* plan_cmd from the planner's outcome on: the planner errors it catches,
\* then validate_plan
plan_cmd_planned(policy, dry_run, auto, confirm, plugins, plan) ==
  IF plan.raised
  THEN PlanCmdOutcome(plan.W, IF plan.exc \in CaughtByPlanCmd THEN "exit1" ELSE "crash",
                      plan, NoValidation, FALSE, FALSE, FALSE, <<>>)
  ELSE plan_cmd_validated(policy, dry_run, auto, confirm, plugins, plan,
                          validate_plan(plan.steps, policy))

\* plan_cmd(task, policy, dry_run, auto)
plan_cmd(W, policy, task, dry_run, auto, confirm, backend, plugins) ==
  plan_cmd_planned(policy, dry_run, auto, confirm, plugins,
                   planner_plan(W, policy, task, backend))

(***************************************************************************)
(* dashboard.py                                                            *)
(***************************************************************************)
\* get_or_create_token: the token of the file if there is one, else a fresh
\* token, written to the file; tokenFile is <<>> (no file) or << token >>
get_or_create_token(tokenFile, fresh) ==
  IF tokenFile # <<>> THEN tokenFile[1] ELSE fresh

\* require_auth with startswith in place of the comparison
Authorized_by_prefix(header, token) == Lit(header, 1, <<"B", "e", "a", "r", "e", "r", " ">> \o token)

\* require_auth: the Authorization header must equal f"Bearer {token}"
Authorized(header, token) == header = <<"B", "e", "a", "r", "e", "r", " ">> \o token

\* the outcome of a request: the HTTP status, the world, the run_plugin calls
\* made, whether Planner.plan was called, what it did and what validate_plan
\* answered
Response(W, status, runs, planned, plan, vr) ==
  [W |-> W, status |-> status, runs |-> runs, planned |-> planned, plan |-> plan,
   validation |-> vr]

NoPlan == PlanOutcome([dir |-> FALSE, exists |-> FALSE, lines |-> <<>>, clock |-> 0],
                      FALSE, "", <<>>, FALSE, <<>>)

\* the GET handlers "/", "/audit", "/policy", "/plugins": one record of the
\* request, then the page; "/" and "/audit" read the ledger
get_page(W, path, page) ==
  LET W1 == write_audit(W, AuditEvent(<<"d", "a", "s", "h", "b", "o", "a", "r", "d">>, "ok", <<"G", "E", "T", " ">> \o path, <<>>))
      read == IF path = <<"/">> THEN read_audit(W1, 10)
              ELSE IF path = <<"/", "a", "u", "d", "i", "t">> THEN read_audit(W1, page * 20)
              ELSE [raised |-> FALSE, entries |-> <<>>]
  IN  Response(W1, IF read.raised THEN 500 ELSE 200, <<>>, FALSE, NoPlan, NoValidation)

\* run_endpoint after its record of the request
run_endpoint_ran(W1, policy, body, plugin, out) ==
  IF ~InSeq(body.plugin, policy.allowed_plugins)
  THEN Response(W1, 403, <<>>, FALSE, NoPlan, NoValidation)
  ELSE Response(out.W, IF out.raised THEN 500 ELSE 200,
                << RunRec(policy, body.plugin, body.target, plugin, Len(W1.lines), out) >>,
                FALSE, NoPlan, NoValidation)

run_endpoint_logged(W1, policy, body, plugin) ==
  run_endpoint_ran(W1, policy, body, plugin, run_plugin(W1, policy, body.plugin, body.target, plugin))

\* run_endpoint: POST /run
run_endpoint(W, policy, body, plugin) ==
  run_endpoint_logged(
    write_audit(W, AuditEvent(<<"d", "a", "s", "h", "b", "o", "a", "r", "d">>, "ok", <<"P", "O", "S", "T", " ", "/", "r", "u", "n", " ", "p", "l", "u", "g", "i", "n", "=">> \o body.plugin, <<>>)),
    policy, body, plugin)

\* the subclasses of PlannerError, which plan_endpoint answers with 400
PlannerErrors ==
  {"PlannerError", "PlannerDisabledError", "PlanNetworkError", "PlanConnectionError",
   "PlanParseError"}

\* plan_endpoint after Planner.plan: 400 on a planner error, else the
\* validation of the plan
plan_endpoint_planned(policy, plan) ==
  IF plan.raised
  THEN Response(plan.W, IF plan.exc \in PlannerErrors THEN 400 ELSE 500,
                <<>>, TRUE, plan, NoValidation)
  ELSE Response(plan.W, IF validate_plan(plan.steps, policy).raised THEN 500 ELSE 200,
                <<>>, TRUE, plan, validate_plan(plan.steps, policy))

\* plan_endpoint: POST /plan
plan_endpoint(W, policy, task, backend) ==
  plan_endpoint_planned(
    policy,
    planner_plan(write_audit(W, AuditEvent(<<"d", "a", "s", "h", "b", "o", "a", "r", "d">>, "ok", <<"P", "O", "S", "T", " ", "/", "p", "l", "a", "n", " ", "t", "a", "s", "k", "=">> \o task, <<>>)),
                 policy, task, backend))

(***************************************************************************)
(* Inputs of the model                                                     *)
(***************************************************************************)
\* operations start while the ledger holds fewer than MaxLedger records
MaxLedger == 2
\* planner.max_steps of the policies that set it
CfgMaxSteps == 2
\* the longest plan a backend answers with: one step over that ceiling
MaxPlanLen == CfgMaxSteps + 1

\* the calls of write_audit that run at the same time
MaxWriters == 2

\* the allow-lists of the sources have at most MaxNames names
MaxNames == 4

\* the texts given to redact are made of at most MaxFrags pieces
MaxFrags == 3

N_ghost == <<"g", "h", "o", "s", "t">>
N_evil == <<"e", "v", "i", "l", "_", "p", "l", "u", "g", "i", "n">>
SecretOpenAI == L_sk \o Rep(<<"a">>, OpenAIMin)
SecretAws == L_AKIA \o Rep(<<"0">>, AwsLen)
SecretBearer == <<"B", "e", "a", "r", "e", "r", " ", "a", "b", "c", ".", "d", "e", "f", "=">>
SecretKeyBlock ==
  L_BEGIN \o L_PRIVATE_KEY \o <<"\n", "M", "I", "I", "B", "\n">> \o L_END \o L_PRIVATE_KEY

\* the sources policy.yaml is loaded from: an empty mapping, a project whose
\* allow-list names a registered plugin twice and an unregistered one, and a
\* project that uses a hosted planner backend without confirmation
PolicySources ==
  { << >>,
    [allowed_plugins |-> << N_todo_scan, N_ghost, N_todo_scan >>,
     dashboard_enabled |-> TRUE,
     planner |-> [enabled |-> TRUE, backend |-> "ollama", base_url |-> <<"h", "t", "t", "p", ":", "/", "/", "l", "o", "c", "a", "l", "h", "o", "s", "t", ":", "1", "1", "4", "3", "4">>,
                  max_steps |-> CfgMaxSteps, require_confirmation |-> TRUE]],
    [allowed_plugins |-> << N_todo_scan >>,
     allow_network |-> TRUE,
     dashboard_enabled |-> TRUE,
     planner |-> [enabled |-> TRUE, backend |-> "openai", base_url |-> <<"h", "t", "t", "p", ":", "/", "/", "l", "o", "c", "a", "l", "h", "o", "s", "t", ":", "1", "1", "4", "3", "4">>,
                  max_steps |-> CfgMaxSteps, require_confirmation |-> FALSE]] }

Policies == {PolicyOf(data) : data \in PolicySources}

\* plugin names, target paths and task descriptions given by callers
Names == {N_todo_scan, N_ghost, N_evil}
Targets == { <<".", "/">>, <<".", ".", "/", "e", "t", "c">>, <<"l", "n", "k", "/", "x">>, <<"a", NUL>> }
Tasks == { <<"u", "s", "e", " ">> \o SecretAws }

\* what a plugin that runs may do
PluginOutcomes ==
  { [kind |-> "ok", text |-> <<"N", "o", " ", "m", "a", "r", "k", "e", "r", "s", " ", "f", "o", "u", "n", "d">>, touched |-> << <<"/", "p", "r", "o", "j", "/", "a", "p", "p", ".", "p", "y">> >>],
    [kind |-> "ok", text |-> <<"k", "e", "y", " ", "=", " ">> \o SecretOpenAI, touched |-> <<>>],
    [kind |-> "raise", text |-> <<"b", "o", "o", "m">>, touched |-> <<>>],
    [kind |-> "raise", text |-> <<"4", "0", "1", " ", "f", "o", "r", " ">> \o SecretBearer, touched |-> <<>>] }

\* the events written through write_audit directly
DirectEvents ==
  { AuditEvent(<<"t", "e", "s", "t">>, "ok", <<"h", "e", "l", "l", "o">>, << <<"a", ".", "p", "y">>, <<"b", ".", "p", "y">> >>),
    AuditEvent(<<"t", "e", "s", "t">>, "ok", SecretKeyBlock, <<>>),
    AuditEvent(<<"t", "e", "s", "t">>, "ok", <<"x", LS, "y">>, <<>>) }

\* the events of the calls that run at the same time: a line that fits the
\* buffer, a line of the size of the buffer and a line larger than it, with
\* a secret and quotes in its detail
WriterEvents ==
  { AuditEvent(<<"t", "e", "s", "t">>, "ok", <<"h", "i">>, <<>>),
    AuditEvent(<<"t", "e", "s", "t">>, "ok", <<"x", "x">>, << <<"a", ".", "p", "y">> >>),
    AuditEvent(<<"t", "e", "s", "t">>, "error", <<"k", "e", "y", " ">> \o SecretAws \o Rep(<<"\"">>, 20), << <<"a", ".", "p", "y">>, <<"b", ".", "p", "y">> >>) }

\* the last_n given to read_audit
ReadCounts == 0..MaxLedger

\* the steps a backend proposes, and its answers
StepChoices ==
  { PlanStep(N_todo_scan, <<".", "/">>, <<"s", "c", "a", "n">>),
    PlanStep(N_evil, <<".", "/">>, <<"h", "a", "c", "k">>),
    PlanStep(N_todo_scan, <<".", ".", "/", "e", "t", "c">>, <<"r", "e", "a", "d">>) }

SeqsUpTo(S, n) == UNION {[1..k -> S] : k \in 0..n}

\* the allowed_plugins of a source: every list of names, repeated or not
NameLists == SeqsUpTo(Names, MaxNames)

\* the plans proposed: every plan of up to CfgMaxSteps steps, and the plans
\* of MaxPlanLen steps that repeat one step
Plans ==
  SeqsUpTo(StepChoices, CfgMaxSteps) \cup {[k \in 1..MaxPlanLen |-> step] : step \in StepChoices}

StepItem(step) == [t |-> "object", has_plugin |-> TRUE, has_target |-> TRUE, step |-> step]

JsonPlan(steps, fenced) ==
  [form |-> "json", fenced |-> fenced,
   data |-> [t |-> "object", has_steps |-> TRUE,
             steps |-> [t |-> "list", items |-> [k \in 1..Len(steps) |-> StepItem(steps[k])]]]]

NoData == [t |-> "null"]

RawResponses ==
  {JsonPlan(steps, FALSE) : steps \in Plans}
  \cup { JsonPlan(<< PlanStep(N_todo_scan, <<".", "/">>, <<"s", "c", "a", "n">>) >>, TRUE),
         [form |-> "empty", fenced |-> FALSE, data |-> NoData],
         [form |-> "garbage", fenced |-> FALSE, data |-> NoData],
         [form |-> "json", fenced |-> FALSE, data |-> [t |-> "list"]],
         [form |-> "json", fenced |-> FALSE, data |-> [t |-> "object", has_steps |-> FALSE]],
         [form |-> "json", fenced |-> FALSE,
          data |-> [t |-> "object", has_steps |-> TRUE, steps |-> [t |-> "number"]]],
         [form |-> "json", fenced |-> FALSE,
          data |-> [t |-> "object", has_steps |-> TRUE,
                    steps |-> [t |-> "list",
                               items |-> << [t |-> "object", has_plugin |-> TRUE,
                                             has_target |-> FALSE,
                                             step |-> PlanStep(N_todo_scan, <<>>, <<>>)] >>]]] }

\* what backend.call does: it returns a text, or raises
BackendOutcomes ==
  {[kind |-> "text", raw |-> raw] : raw \in RawResponses}
  \cup {[kind |-> k, raw |-> [form |-> "empty", fenced |-> FALSE, data |-> NoData]] :
          k \in {"PlanConnectionError", "ReadTimeout"}}

\* the policies validate_plan is called with directly: step ceilings 0, 1,
\* CfgMaxSteps and the default, allow-lists with none, one and two names
ValidatePolicies ==
  Policies \cup
  { PolicyOf([allowed_plugins |-> allowed,
              planner |-> [DefaultPlanner EXCEPT !.max_steps = max]]) :
      allowed \in { <<>>, << N_todo_scan >>, << N_todo_scan, N_evil >> },
      max \in {0, 1, CfgMaxSteps} }

\* the plans validate_plan is called with directly: the steps a backend
\* proposes and a step whose target cannot be resolved
ValidateSteps == StepChoices \cup { PlanStep(N_todo_scan, <<"a", NUL>>, <<"s", "c", "a", "n">>) }
ValidatePlans == SeqsUpTo(ValidateSteps, MaxPlanLen)

\* the base_url of a planner backend: the loopback interface by name, by
\* IPv4 and by IPv6 address, and hosts elsewhere
Urls ==
  { <<"h", "t", "t", "p", ":", "/", "/", "l", "o", "c", "a", "l", "h", "o", "s", "t", ":", "1", "1", "4", "3", "4">>, <<"h", "t", "t", "p", ":", "/", "/", "1", "2", "7", ".", "0", ".", "0", ".", "1", ":", "1", "1", "4", "3", "4">>, <<"h", "t", "t", "p", ":", "/", "/", "L", "o", "c", "a", "l", "H", "o", "s", "t", ":", "1", "1", "4", "3", "4">>,
    <<"h", "t", "t", "p", ":", "/", "/", "[", ":", ":", "1", "]", ":", "1", "1", "4", "3", "4">>, <<"h", "t", "t", "p", ":", "/", "/", "1", "2", "7", ".", "0", ".", "0", ".", "2", ":", "1", "1", "4", "3", "4">>, <<"h", "t", "t", "p", ":", "/", "/", "1", "0", ".", "0", ".", "0", ".", "5", ":", "1", "1", "4", "3", "4">>,
    <<"h", "t", "t", "p", ":", "/", "/", "l", "o", "c", "a", "l", "h", "o", "s", "t", ".", "e", "x", "a", "m", "p", "l", "e", ".", "c", "o", "m", ":", "1", "1", "4", "3", "4">>, <<"h", "t", "t", "p", ":", "/", "/", "e", "x", "a", "m", "p", "l", "e", ".", "c", "o", "m", "/", "1", "2", "7", ".", "0", ".", "0", ".", "1">> }

\* the policies Planner.plan is called under directly
PlannerPolicies ==
  { PolicyOf([planner |-> [DefaultPlanner EXCEPT !.enabled = TRUE, !.base_url = url]]) :
      url \in Urls }
  \cup
  { PolicyOf([allow_network |-> net,
              planner |-> [DefaultPlanner EXCEPT !.enabled = en, !.backend = b]]) :
      net \in BOOLEAN, en \in BOOLEAN, b \in {"ollama", "openai", "llama"} }

\* the tasks and the backend behaviours of those calls
PlannerTasks == Tasks \cup { <<"l", "i", "s", "t", " ", "t", "h", "e", " ", "t", "o", "d", "o", "s">> }
PlannerBackends ==
  BackendOutcomes
  \cup {[kind |-> "hang", raw |-> [form |-> "empty", fenced |-> FALSE, data |-> NoData]]}

\* the texts _parse_plan_json is called with directly: every plan, plain and
\* in code fences, and texts that are no plan
JsonSteps(steps_value, fenced) ==
  [form |-> "json", fenced |-> fenced,
   data |-> [t |-> "object", has_steps |-> TRUE, steps |-> steps_value]]

ParseResponses ==
  RawResponses
  \cup {JsonPlan(steps, fenced) : steps \in ValidatePlans, fenced \in BOOLEAN}
  \cup {[form |-> "garbage", fenced |-> TRUE, data |-> NoData]}
  \cup {JsonSteps(v, FALSE) :
          v \in { [t |-> "null"],
                  [t |-> "string", items |-> <<>>],
                  [t |-> "string", items |-> << [t |-> "string"] >>],
                  [t |-> "object", items |-> <<>>],
                  [t |-> "list", items |-> << [t |-> "number"] >>],
                  [t |-> "list",
                   items |-> << StepItem(PlanStep(N_todo_scan, <<".", "/">>, <<"s", "c", "a", "n">>)),
                                [t |-> "object", has_plugin |-> FALSE, has_target |-> TRUE,
                                 step |-> PlanStep(<<>>, <<".", "/">>, <<>>)] >>] }}

\* the pieces of the texts redact is called with directly: secrets of each
\* pattern, beginnings of secrets, a marker and a separator
SecretAnthropic == L_sk_ant \o Rep(<<"a", "-">>, AnthropicMin \div 2)
SecretGhp == L_ghp \o Rep(<<"b">>, GhpMin)
SecretGithubPat == L_github_pat \o Rep(<<"c">>, GithubPatMin)
RedactFrags ==
  { SecretOpenAI, SecretAnthropic, SecretAws, SecretGhp, SecretGithubPat, SecretBearer,
    SecretKeyBlock, L_Bearer \o <<" ">>, Marker(3) }

RECURSIVE Concat(_)
Concat(pieces) == IF pieces = <<>> THEN <<>> ELSE Head(pieces) \o Concat(Tail(pieces))

RedactTexts == {Concat(pieces) : pieces \in SeqsUpTo(RedactFrags, MaxFrags)}

\* secrets.token_urlsafe
Tokens == { <<"t", "o", "k", "A">> }
Headers == { <<>>, <<"B", "e", "a", "r", "e", "r", " ", "t", "o", "k", "A">>, <<"B", "e", "a", "r", "e", "r", " ", "t", "o", "k", "B">>, <<"B", "e", "a", "r", "e", "r", " ", "t", "o", "k", "A", "x">>, <<"b", "e", "a", "r", "e", "r", " ", "t", "o", "k", "A">> }
Pages == { <<"/">>, <<"/", "a", "u", "d", "i", "t">>, <<"/", "p", "o", "l", "i", "c", "y">>, <<"/", "p", "l", "u", "g", "i", "n", "s">> }

(***************************************************************************)
(* The state machine                                                       *)
(*                                                                         *)
(* policy      - the Policy loaded from policy.yaml                        *)
(* dirExists, ledgerExists, ledger, clock - the world (see audit.py)       *)
(* tokenFile   - .safeclaw/dashboard_token: <<>> or << token >>            *)
(* app         - the dashboard application: [up, token]                    *)
(* last        - the call in progress as its caller sees it: the           *)
(*               operation, its arguments and its outcome; [op |-> "none"] *)
(*               when no call is in progress                               *)
(***************************************************************************)
VARIABLES policy, dirExists, ledgerExists, ledger, clock, tokenFile, app, last

vars == << policy, dirExists, ledgerExists, ledger, clock, tokenFile, app, last >>

World == [dir |-> dirExists, exists |-> ledgerExists, lines |-> ledger, clock |-> clock]

SetWorld(W) ==
  /\ dirExists' = W.dir
  /\ ledgerExists' = W.exists
  /\ ledger' = W.lines
  /\ clock' = W.clock

Idle == last.op = "none"

\* a new call may start
Ready == Idle /\ Len(ledger) < MaxLedger

Init ==
  /\ policy \in Policies
  /\ dirExists = FALSE
  /\ ledgerExists = FALSE
  /\ ledger = <<>>
  /\ clock = 0
  /\ tokenFile = <<>>
  /\ app = [up |-> FALSE, token |-> <<>>]
  /\ last = [op |-> "none"]

\* write_audit(root, event)
WriteAudit(event) ==
  /\ Ready
  /\ \E W \in {write_audit(World, event)} : SetWorld(W)
  /\ last' = [op |-> "write_audit", event |-> event, before |-> Len(ledger), runs |-> <<>>]
  /\ UNCHANGED << policy, tokenFile, app >>

\* read_audit(root, last_n)
ReadAudit(last_n) ==
  /\ Idle
  /\ \E out \in {read_audit(World, last_n)} :
       last' = [op |-> "read_audit", last_n |-> last_n, before |-> Len(ledger), runs |-> <<>>,
                raised |-> out.raised, entries |-> out.entries]
  /\ UNCHANGED << policy, dirExists, ledgerExists, ledger, clock, tokenFile, app >>

\* the plugin outcomes to choose from: one only when the plugin will not run
OutcomesFor(plugin_name, target_path) ==
  IF /\ InSeq(plugin_name, policy.allowed_plugins)
     /\ plugin_name \in Registry
     /\ ~Unresolvable(ParsePath(target_path))
     /\ IsUnder(Resolve(ParsePath(target_path)), root_path(policy))
  THEN PluginOutcomes
  ELSE {CHOOSE p \in PluginOutcomes : p.kind = "ok" /\ p.touched # <<>>}

\* run_plugin adding the name it was asked for to the allow-list of the policy
RunPlugin_remembering(plugin_name, target_path, plugin) ==
  /\ Ready
  /\ \E out \in {run_plugin(World, policy, plugin_name, target_path, plugin)} :
         /\ SetWorld(out.W)
         /\ last' = [op |-> "run_plugin", before |-> Len(ledger),
                     runs |-> << RunRec(policy, plugin_name, target_path, plugin, Len(ledger), out) >>]
  /\ policy' = [project_root |-> policy.project_root,
                allow_network |-> policy.allow_network,
                allow_shell |-> policy.allow_shell,
                allowed_plugins |-> IF InSeq(plugin_name, policy.allowed_plugins)
                                    THEN policy.allowed_plugins
                                    ELSE Append(policy.allowed_plugins, plugin_name),
                planner |-> policy.planner,
                dashboard_enabled |-> policy.dashboard_enabled]
  /\ UNCHANGED << tokenFile, app >>

\* run_plugin(policy, plugin_name, target_path)
RunPlugin(plugin_name, target_path, plugin) ==
  /\ Ready
  /\ \E out \in {run_plugin(World, policy, plugin_name, target_path, plugin)} :
         /\ SetWorld(out.W)
         /\ last' = [op |-> "run_plugin", before |-> Len(ledger),
                     runs |-> << RunRec(policy, plugin_name, target_path, plugin, Len(ledger), out) >>]
  /\ UNCHANGED << policy, tokenFile, app >>

\* Planner(policy).plan(task)
PlannerPlan(task, backend) ==
  /\ Ready
  /\ \E out \in {planner_plan(World, policy, task, backend)} :
         /\ SetWorld(out.W)
         /\ last' = [op |-> "planner_plan", task |-> task, backend |-> backend,
                     before |-> Len(ledger), runs |-> <<>>,
                     raised |-> out.raised, exc |-> out.exc, steps |-> out.steps,
                     called |-> out.called, trace |-> out.trace]
  /\ UNCHANGED << policy, tokenFile, app >>

\* the plugin outcomes of a plan's steps when none of them runs
IdlePlugins ==
  [k \in 1..MaxPlanLen |-> CHOOSE p \in PluginOutcomes : p.kind = "ok" /\ p.touched # <<>>]

\* the plugin outcomes of a plan of n steps
PluginsFor(n) ==
  { p \in [1..MaxPlanLen -> PluginOutcomes] : \A k \in (n + 1)..MaxPlanLen : p[k] = IdlePlugins[k] }

\* safeclaw plan TASK [--dry-run] [--auto]
PlanCmd(task, dry_run, auto, confirm, backend, plugins) ==
  /\ Ready
  /\ \E out \in {plan_cmd(World, policy, task, dry_run, auto, confirm, backend, plugins)} :
         /\ SetWorld(out.W)
         /\ last' = [op |-> "plan_cmd", task |-> task, dry_run |-> dry_run, auto |-> auto,
                     confirm |-> confirm, backend |-> backend,
                     before |-> Len(ledger), runs |-> out.runs,
                     exit |-> out.exit, steps |-> out.steps, made |-> out.made,
                     checked |-> out.checked, validation |-> out.validation,
                     prompted |-> out.prompted]
  /\ UNCHANGED << policy, tokenFile, app >>

\* the user answers only when asked, and plugins act only when steps run
PlanCmdAny ==
  /\ Ready
  /\ \E task \in Tasks, dry_run \in BOOLEAN, auto \in BOOLEAN, backend \in BackendOutcomes :
    \E probe \in {plan_cmd(World, policy, task, dry_run, auto, TRUE, backend, IdlePlugins)} :
      \E confirm \in (IF probe.prompted THEN BOOLEAN ELSE {FALSE}) :
        \E plugins \in (IF probe.runs # <<>> /\ (confirm \/ ~probe.prompted)
                        THEN PluginsFor(Len(probe.steps)) ELSE {IdlePlugins}) :
          PlanCmd(task, dry_run, auto, confirm, backend, plugins)

\* safeclaw dashboard: create_app(policy) reads or creates the token
StartDashboard(fresh) ==
  /\ Idle
  /\ ~app.up
  /\ policy.dashboard_enabled
  /\ dirExists' = TRUE
  /\ tokenFile' = << get_or_create_token(tokenFile, fresh) >>
  /\ app' = [up |-> TRUE, token |-> get_or_create_token(tokenFile, fresh)]
  /\ last' = [op |-> "dashboard_cmd", before |-> Len(ledger), runs |-> <<>>]
  /\ UNCHANGED << policy, ledgerExists, ledger, clock >>

\* what the caller of an HTTP request sees
Seen(endpoint, header, resp) ==
  [op |-> "request", endpoint |-> endpoint, header |-> header, status |-> resp.status,
   before |-> Len(ledger), runs |-> resp.runs, planned |-> resp.planned,
   plan |-> [raised |-> resp.plan.raised, exc |-> resp.plan.exc, steps |-> resp.plan.steps,
             called |-> resp.plan.called],
   validation |-> resp.validation]

\* a request the Depends(require_auth) of every route refuses with 401
Refused == Response(World, 401, <<>>, FALSE, NoPlan, NoValidation)

\* GET /, /audit?page=, /policy, /plugins
GetPage(path, page, header) ==
  /\ Ready
  /\ app.up
  /\ \E resp \in {IF Authorized(header, app.token) THEN get_page(World, path, page) ELSE Refused} :
         /\ SetWorld(resp.W)
         /\ last' = Seen(path, header, resp)
  /\ UNCHANGED << policy, tokenFile, app >>

\* POST /run
PostRun(body, header, plugin) ==
  /\ Ready
  /\ app.up
  /\ \E resp \in {IF Authorized(header, app.token) THEN run_endpoint(World, policy, body, plugin) ELSE Refused} :
         /\ SetWorld(resp.W)
         /\ last' = Seen(<<"/", "r", "u", "n">>, header, resp)
  /\ UNCHANGED << policy, tokenFile, app >>

\* POST /plan
PostPlan(task, header, backend) ==
  /\ Ready
  /\ app.up
  /\ \E resp \in {IF Authorized(header, app.token) THEN plan_endpoint(World, policy, task, backend) ELSE Refused} :
         /\ SetWorld(resp.W)
         /\ last' = Seen(<<"/", "p", "l", "a", "n">>, header, resp)
  /\ UNCHANGED << policy, tokenFile, app >>

\* validate_plan(ExecutionPlan(steps), policy)
ValidatePlan(steps) ==
  /\ Idle
  /\ last' = [op |-> "validate_plan", steps |-> steps, before |-> Len(ledger), runs |-> <<>>,
              validation |-> validate_plan(steps, policy)]
  /\ UNCHANGED << policy, dirExists, ledgerExists, ledger, clock, tokenFile, app >>

\* _parse_plan_json(raw)
ParsePlanJson(raw) ==
  /\ Idle
  /\ last' = [op |-> "parse_plan_json", raw |-> raw, before |-> Len(ledger), runs |-> <<>>,
              out |-> parse_plan_json(raw)]
  /\ UNCHANGED << policy, dirExists, ledgerExists, ledger, clock, tokenFile, app >>

\* redact(text)
Redact(text) ==
  /\ Idle
  /\ last' = [op |-> "redact", text |-> text, before |-> Len(ledger), runs |-> <<>>,
              out |-> redact(text)]
  /\ UNCHANGED << policy, dirExists, ledgerExists, ledger, clock, tokenFile, app >>

\* ---- write_audit, statement by statement, in several calls at a time ----

WriterCalls == IF last.op = "write_audit" /\ "calls" \in DOMAIN last THEN last.calls ELSE <<>>

\* call w has run its statements and its write(2) calls
Finished(c) == c.pc = "closed" /\ c.f.raw = <<>>

\* some call is still inside write_audit
Writing == \E w \in 1..Len(WriterCalls) : ~Finished(WriterCalls[w])

SetCall(w, c) ==
  last' = [op |-> "write_audit", before |-> 0, runs |-> <<>>,
           calls |-> [v \in 1..Len(last.calls) |-> IF v = w THEN c ELSE last.calls[v]]]

At(w, pc) == w \in 1..Len(WriterCalls) /\ WriterCalls[w].pc = pc

Step(c, pc, record, f) == [pc |-> pc, event |-> c.event, record |-> record, f |-> f]

\* write_audit(root, event) is called: the first call on a project without
\* a ledger, the next ones before the callers have their results
WriterCall(event) ==
  /\ (Idle /\ ledger = <<>>) \/ WriterCalls # <<>>
  /\ Len(WriterCalls) < MaxWriters
  /\ last' = [op |-> "write_audit",
              before |-> 0,
              runs |-> <<>>,
              calls |-> Append(WriterCalls, [pc |-> "mkdir", event |-> event, record |-> <<>>, f |-> NewFile])]
  /\ UNCHANGED << policy, dirExists, ledgerExists, ledger, clock, tokenFile, app >>

\* audit_dir.mkdir(parents=True, exist_ok=True)
WriterMkdir(w) ==
  /\ At(w, "mkdir")
  /\ dirExists' = TRUE
  /\ SetCall(w, Step(last.calls[w], "record", <<>>, NewFile))
  /\ UNCHANGED << policy, ledgerExists, ledger, clock, tokenFile, app >>

\* record = asdict(event), its detail redacted, its timestamp the time now
WriterRecord(w) ==
  /\ At(w, "record")
  /\ \E record \in {audit_record(last.calls[w].event, clock)} :
       SetCall(w, Step(last.calls[w], "open", record, NewFile))
  /\ clock' = clock + 1
  /\ UNCHANGED << policy, dirExists, ledgerExists, ledger, tokenFile, app >>

\* audit_path.open("a", encoding="utf-8")
WriterOpen(w) ==
  /\ At(w, "open")
  /\ ledgerExists' = TRUE
  /\ SetCall(w, Step(last.calls[w], "write", last.calls[w].record, NewFile))
  /\ UNCHANGED << policy, dirExists, ledger, clock, tokenFile, app >>

\* fh.write(line): into the layers of the file object
WriterWrite(w) ==
  /\ At(w, "write")
  /\ \E f \in {fh_write(last.calls[w].f, last.calls[w].record)} :
       SetCall(w, Step(last.calls[w], "close", last.calls[w].record, f))
  /\ UNCHANGED << policy, dirExists, ledgerExists, ledger, clock, tokenFile, app >>

\* the end of the with block: the file is closed, once fh.write has returned
WriterClose(w) ==
  /\ At(w, "close")
  /\ last.calls[w].f.raw = <<>>
  /\ \E f \in {fh_close(last.calls[w].f)} :
       SetCall(w, Step(last.calls[w], "closed", last.calls[w].record, f))
  /\ UNCHANGED << policy, dirExists, ledgerExists, ledger, clock, tokenFile, app >>

\* one write(2) on a descriptor opened for append: its bytes go to the end
\* of the file, whatever the other descriptors do
WriterRawWrite(w) ==
  /\ w \in 1..Len(WriterCalls)
  /\ last.calls[w].f.raw # <<>>
  /\ ledger' = Append(ledger, Written(Head(last.calls[w].f.raw), last.calls[w].record))
  /\ SetCall(w, Step(last.calls[w], last.calls[w].pc, last.calls[w].record,
                     [pending |-> last.calls[w].f.pending,
                      buffer |-> last.calls[w].f.buffer,
                      raw |-> Tail(last.calls[w].f.raw)]))
  /\ UNCHANGED << policy, dirExists, ledgerExists, clock, tokenFile, app >>

\* Policy(allowed_plugins=v): the validator of the field
DeduplicatePlugins(v) ==
  /\ Idle
  /\ \E out \in {deduplicate_plugins(v)} :
       last' = [op |-> "deduplicate_plugins", v |-> v, out |-> out,
                before |-> Len(ledger), runs |-> <<>>]
  /\ UNCHANGED << policy, dirExists, ledgerExists, ledger, clock, tokenFile, app >>

\* the call in progress waits in backend.call for good
Hung == last.op = "planner_plan" /\ last.trace[Len(last.trace)] = "call"

\* the call in progress is over: its caller has the outcome
Return ==
  /\ ~Idle
  /\ ~Hung
  /\ ~Writing
  /\ last' = [op |-> "none"]
  /\ UNCHANGED << policy, dirExists, ledgerExists, ledger, clock, tokenFile, app >>

\* the calls made from outside, with their arguments
WriteAuditAny == \E event \in DirectEvents : WriteAudit(event)

ReadAuditAny == \E last_n \in ReadCounts : ReadAudit(last_n)

RunPluginAny ==
  \E plugin_name \in Names, target_path \in Targets :
    \E plugin \in OutcomesFor(plugin_name, target_path) :
      RunPlugin(plugin_name, target_path, plugin)

PlannerPlanAny == \E task \in Tasks, backend \in BackendOutcomes : PlannerPlan(task, backend)

StartDashboardAny == \E fresh \in Tokens : StartDashboard(fresh)

GetPageAny ==
  \E path \in Pages, page \in 1..2, header \in Headers :
    (path # <<"/", "a", "u", "d", "i", "t">> => page = 1) /\ GetPage(path, page, header)

PostRunAny ==
  \E plugin_name \in Names, target_path \in Targets, header \in Headers :
    \E plugin \in OutcomesFor(plugin_name, target_path) :
      PostRun([plugin |-> plugin_name, target |-> target_path], header, plugin)

PostPlanAny ==
  \E task \in Tasks, header \in Headers, backend \in BackendOutcomes :
    PostPlan(task, header, backend)

Next ==
  \/ WriteAuditAny
  \/ ReadAuditAny
  \/ RunPluginAny
  \/ PlannerPlanAny
  \/ PlanCmdAny
  \/ StartDashboardAny
  \/ GetPageAny
  \/ PostRunAny
  \/ PostPlanAny
  \/ Return

Spec == Init /\ [][Next]_vars

\* the runner alone, called from the command line and from the dashboard
NextRunner ==
  \/ RunPluginAny
  \/ StartDashboardAny
  \/ PostRunAny
  \/ Return

SpecRunner == Init /\ [][NextRunner]_vars

\* the planner alone, called by itself, by the plan command and by the
\* dashboard
NextPlan ==
  \/ PlannerPlanAny
  \/ PlanCmdAny
  \/ StartDashboardAny
  \/ PostPlanAny
  \/ Return

SpecPlan == Init /\ [][NextPlan]_vars

\* a project before its first command, under a policy of the set P
Fresh(P) ==
  /\ policy \in P
  /\ dirExists = FALSE
  /\ ledgerExists = FALSE
  /\ ledger = <<>>
  /\ clock = 0
  /\ tokenFile = <<>>
  /\ app = [up |-> FALSE, token |-> <<>>]
  /\ last = [op |-> "none"]

\* validate_plan alone, called with every plan under every policy
ValidatePlanAny == \E steps \in ValidatePlans : ValidatePlan(steps)

InitValidate == Fresh(ValidatePolicies)

NextValidate ==
  \/ ValidatePlanAny
  \/ Return

SpecValidate == InitValidate /\ [][NextValidate]_vars

\* Planner.plan alone, under every planner configuration
PlannerPlanDirect ==
  \E task \in PlannerTasks, backend \in PlannerBackends : PlannerPlan(task, backend)

InitPlanner == Fresh(PlannerPolicies)

NextPlanner ==
  \/ PlannerPlanDirect
  \/ Return

SpecPlanner == InitPlanner /\ [][NextPlanner]_vars

\* _parse_plan_json alone, on every text
ParsePlanJsonAny == \E raw \in ParseResponses : ParsePlanJson(raw)

NextParse ==
  \/ ParsePlanJsonAny
  \/ Return

SpecParse == Init /\ [][NextParse]_vars

\* redact alone, on every text
RedactAny == \E text \in RedactTexts : Redact(text)

NextRedact ==
  \/ RedactAny
  \/ Return

\* redact reads no policy: the project is one with the default policy
InitRedact == Fresh({PolicyOf(<< >>)})

SpecRedact == InitRedact /\ [][NextRedact]_vars

\* write_audit alone, in up to MaxWriters calls at a time
WriterCallAny == \E event \in WriterEvents : WriterCall(event)

WriterMkdirAny == \E w \in 1..MaxWriters : WriterMkdir(w)

WriterRecordAny == \E w \in 1..MaxWriters : WriterRecord(w)

WriterOpenAny == \E w \in 1..MaxWriters : WriterOpen(w)

WriterWriteAny == \E w \in 1..MaxWriters : WriterWrite(w)

WriterCloseAny == \E w \in 1..MaxWriters : WriterClose(w)

WriterRawWriteAny == \E w \in 1..MaxWriters : WriterRawWrite(w)

NextWriters ==
  \/ WriterCallAny
  \/ WriterMkdirAny
  \/ WriterRecordAny
  \/ WriterOpenAny
  \/ WriterWriteAny
  \/ WriterCloseAny
  \/ WriterRawWriteAny
  \/ Return

SpecWriters == InitRedact /\ [][NextWriters]_vars

\* the validator of allowed_plugins alone, on every list of names
DeduplicatePluginsAny == \E v \in NameLists : DeduplicatePlugins(v)

NextPolicy ==
  \/ DeduplicatePluginsAny
  \/ Return

SpecPolicy == InitRedact /\ [][NextPolicy]_vars

\* the ledger alone, written and read directly; the dashboard command
\* makes the directory .safeclaw before there is a ledger
NextAudit ==
  \/ WriteAuditAny
  \/ ReadAuditAny
  \/ StartDashboardAny
  \/ Return

SpecAudit == Init /\ [][NextAudit]_vars

\* the dashboard alone: the application is started, then requests come
NextDashboard ==
  \/ StartDashboardAny
  \/ GetPageAny
  \/ PostRunAny
  \/ PostPlanAny
  \/ Return

SpecDashboard == Init /\ [][NextDashboard]_vars

(***************************************************************************)
(* Properties                                                              *)
(***************************************************************************)
\* the run_plugin calls of the operation in progress, in order
Runs == IF Idle THEN <<>> ELSE last.runs

\* run number k of the operation in progress returned (did not raise)
RunReturned(k) == ~Runs[k].raised

\* the ledger record a run that appended one record left
RecordOf(r) == ledger[r.after]

\* the gates of run_plugin, read off its arguments
GateAllowed(r) == \E i \in 1..Len(r.policy.allowed_plugins) : r.policy.allowed_plugins[i] = r.plugin_name
GateRegistered(r) == r.plugin_name \in Registry
GateResolvable(r) == ~Unresolvable(ParsePath(r.target_path))
GateInside(r) == IsUnder(Resolve(ParsePath(r.target_path)), root_path(r.policy))

\* C1: every run_plugin call that returns has appended exactly one record to
\* the ledger during the call, whatever the branch, and the append comes
\* before the return
C1_OneRecordBeforeReturn ==
  \A k \in 1..Len(Runs) :
    RunReturned(k) =>
      LET r == Runs[k]
          n == Len(r.trace)
      IN  /\ r.after = r.before + 1
          /\ RecordOf(r).action = r.plugin_name
          /\ n >= 2 /\ r.trace[n] = "return" /\ r.trace[n - 1] = "audit"
          /\ Cardinality({i \in 1..n : r.trace[i] = "audit"}) = 1

\* a call on the command line whose plugin raised, and which returned
C1_Witness ==
  /\ ~Idle /\ last.op = "run_plugin"
  /\ RunReturned(1) /\ Runs[1].invoked /\ ~Runs[1].result.ok
  /\ Runs[1].before = 1

\* C2: the plugin's run function is invoked only if the name is in
\* policy.allowed_plugins, the name is in the registry and the resolved
\* target lies within policy.root_path()
C2_InvokedOnlyThroughGates ==
  \A k \in 1..Len(Runs) :
    Runs[k].invoked =>
      /\ GateAllowed(Runs[k]) /\ GateRegistered(Runs[k])
      /\ GateResolvable(Runs[k]) /\ GateInside(Runs[k])

\* a plugin was invoked, and in the same policy a call for a target that
\* leaves the root through a symbolic link was made before
C2_Witness ==
  /\ ~Idle /\ last.op = "run_plugin" /\ Runs[1].invoked
  /\ Len(ledger) = 2 /\ ledger[1].status = "denied"
  /\ Contains(ledger[1].detail, <<"o", "u", "t", "s", "i", "d", "e", " ", "p", "r", "o", "j", "e", "c", "t", " ", "r", "o", "o", "t">>)

\* C3 as stated: for every target whose resolved path is not under the root,
\* run_plugin returns ok=false with a message containing "outside project
\* root" and appends exactly one record, of status "denied"
C3_OutsideAlwaysSaysOutside ==
  \A k \in 1..Len(Runs) :
    (GateResolvable(Runs[k]) /\ ~GateInside(Runs[k])) =>
      /\ RunReturned(k)
      /\ ~Runs[k].result.ok
      /\ Contains(Runs[k].result.message, <<"o", "u", "t", "s", "i", "d", "e", " ", "p", "r", "o", "j", "e", "c", "t", " ", "r", "o", "o", "t">>)
      /\ Runs[k].after = Runs[k].before + 1
      /\ RecordOf(Runs[k]).status = "denied"

\* C3 amended: for a plugin that is in the allow-list and registered, every
\* target whose resolved path is not under the root gets ok=false, a message
\* containing "outside project root" and exactly one record, of status
\* "denied"; the plugin is not invoked
C3_OutsideDeniedWhenPluginPasses ==
  \A k \in 1..Len(Runs) :
    (GateAllowed(Runs[k]) /\ GateRegistered(Runs[k])
       /\ GateResolvable(Runs[k]) /\ ~GateInside(Runs[k])) =>
      /\ RunReturned(k)
      /\ ~Runs[k].result.ok
      /\ ~Runs[k].invoked
      /\ Contains(Runs[k].result.message, <<"o", "u", "t", "s", "i", "d", "e", " ", "p", "r", "o", "j", "e", "c", "t", " ", "r", "o", "o", "t">>)
      /\ Runs[k].after = Runs[k].before + 1
      /\ RecordOf(Runs[k]).status = "denied"
      /\ RecordOf(Runs[k]).action = Runs[k].plugin_name

\* an allowed, registered plugin was asked for a target that a symbolic link
\* takes outside the root
C3_Witness ==
  /\ ~Idle /\ last.op = "run_plugin"
  /\ GateAllowed(Runs[1]) /\ GateRegistered(Runs[1])
  /\ Runs[1].target_path = <<"l", "n", "k", "/", "x">>
  /\ ~GateInside(Runs[1])

\* C4: run_plugin never raises and never leaves without a record: every
\* call returns, and a call that did not succeed returns ok=false after one
\* record was appended
C4_NeverRaisesNeverSkips ==
  \A k \in 1..Len(Runs) :
    /\ RunReturned(k)
    /\ Runs[k].after = Runs[k].before + 1

\* C5: when the invoked plugin raises a failure, run_plugin appends one
\* record with action = the plugin name, status "error" and the description
\* of the failure as detail, and returns ok=false with that description and
\* no touched files; the failure does not reach the caller
C5_PluginFailureRecorded ==
  \A k \in 1..Len(Runs) :
    (Runs[k].invoked /\ Runs[k].plugin.kind = "raise") =>
      LET r == Runs[k]
          msg == <<"P", "l", "u", "g", "i", "n", " ", "'">> \o r.plugin_name \o <<"'", " ", "r", "a", "i", "s", "e", "d", " ", "a", "n", " ", "e", "x", "c", "e", "p", "t", "i", "o", "n", ":", " ">> \o r.plugin.text
      IN  /\ RunReturned(k)
          /\ r.after = r.before + 1
          /\ RecordOf(r).action = r.plugin_name
          /\ RecordOf(r).status = "error"
          /\ RecordOf(r).detail = redact(msg)
          /\ RecordOf(r).touched_files = <<>>
          /\ r.result = RunResult(FALSE, msg, <<>>)

\* a plugin run from the dashboard raised with a bearer token in its text
C5_Witness ==
  /\ ~Idle /\ last.op = "request" /\ last.endpoint = <<"/", "r", "u", "n">>
  /\ Len(Runs) = 1 /\ Runs[1].invoked /\ Runs[1].plugin.kind = "raise"
  /\ Contains(Runs[1].plugin.text, <<"B", "e", "a", "r", "e", "r">>)
\* a is an initial part of b
IsPrefix(a, b) == Len(a) <= Len(b) /\ \A i \in 1..Len(a) : a[i] = b[i]

\* C6: the ledger is append-only: whatever the operation, every record
\* appended earlier stays, unchanged and in its place; a write_audit adds
\* exactly one record at the end, and a read_audit adds none
C6_AppendOnly ==
  [][ /\ IsPrefix(ledger, ledger')
      /\ (last'.op = "write_audit" =>
            /\ Len(ledger') = Len(ledger) + 1
            /\ ledger'[Len(ledger')].action = last'.event.action
            /\ ledger'[Len(ledger')].status = last'.event.status
            /\ ledger'[Len(ledger')].touched_files = last'.event.touched_files)
      /\ (last'.op = "read_audit" => ledger' = ledger) ]_vars

\* a write_audit on a ledger that held a record of another operation
C6_Witness ==
  /\ ~Idle /\ last.op = "write_audit"
  /\ last.before = 1 /\ Len(ledger) = 2
  /\ ledger[1].action # ledger[2].action

\* C7: no persisted detail, whichever component wrote the record, contains
\* a substring that matches one of the built-in redaction patterns
C7_NoSecretPersisted ==
  \A k \in 1..Len(ledger) : \A p \in 1..Len(PATTERNS) : ~HasMatch(p, ledger[k].detail)

\* the planner recorded a task that held an AWS key, and the runner a
\* plugin message that held an OpenAI key
C7_Witness ==
  /\ \E k \in 1..Len(ledger) :
       ledger[k].action = <<"p", "l", "a", "n", "n", "e", "r">> /\ Contains(ledger[k].detail, <<"[", "R", "E", "D", "A", "C", "T", "E", "D", ":", "A", "W", "S", "_", "K", "E", "Y", "]">>)
  /\ \E k \in 1..Len(ledger) :
       ledger[k].action = N_todo_scan /\ Contains(ledger[k].detail, <<"[", "R", "E", "D", "A", "C", "T", "E", "D", ":", "O", "P", "E", "N", "A", "I", "_", "K", "E", "Y", "]">>)

\* C8: read_audit(root, n) returns at most n records: the n most recently
\* appended (all when there are fewer), newest first
C8_AtMostNNewestFirst ==
  (~Idle /\ last.op = "read_audit" /\ ~last.raised) =>
    /\ Len(last.entries) <= last.last_n
    /\ Len(last.entries) = (IF Len(ledger) < last.last_n THEN Len(ledger) ELSE last.last_n)
    /\ \A i \in 1..Len(last.entries) : last.entries[i] = ledger[Len(ledger) + 1 - i]

\* a step of the plan keeps within the policy: its plugin is in the
\* allow-list and its target resolves under the root
StepAllowed(step, pol) ==
  \E i \in 1..Len(pol.allowed_plugins) : pol.allowed_plugins[i] = step.plugin
StepInside(step, pol) ==
  IsUnder(Resolve(PathJoin([abs |-> TRUE, parts |-> root_path(pol)], ParsePath(step.target))),
          root_path(pol))
StepComplies(step, pol) == StepAllowed(step, pol) /\ StepInside(step, pol)

\* C9: the plan command runs no step unless validate_plan answered
\* validated=true for the whole plan: with a rejected step none runs, not
\* even a compliant one, and with --dry-run none runs
C9_NoStepUnlessValidated ==
  (~Idle /\ last.op = "plan_cmd") =>
    /\ Runs # <<>> =>
          /\ last.checked /\ last.validation.validated /\ ~last.dry_run
          /\ Len(last.steps) <= policy.planner.max_steps
          /\ \A k \in 1..Len(last.steps) : StepComplies(last.steps[k], policy)
    /\ (last.checked /\ last.validation.rejected_steps # <<>>) => Runs = <<>>
    /\ last.dry_run => Runs = <<>>

\* a plan whose first step complies and whose second is rejected, without
\* --dry-run and without a prompt: nothing ran
C9_Witness ==
  /\ ~Idle /\ last.op = "plan_cmd" /\ last.checked
  /\ ~last.dry_run /\ ~last.prompted /\ ~policy.planner.require_confirmation
  /\ Len(last.steps) = 2
  /\ StepComplies(last.steps[1], policy) /\ ~StepComplies(last.steps[2], policy)
  /\ Len(last.validation.rejected_steps) = 1
  /\ Runs = <<>>

\* the plans validate_plan answered for in the operation in progress
Validations ==
  IF Idle THEN {}
  ELSE IF last.op = "plan_cmd" /\ last.checked
  THEN {[steps |-> last.steps, vr |-> last.validation]}
  ELSE IF last.op = "request" /\ last.planned /\ ~last.plan.raised /\ ~last.validation.raised
  THEN {[steps |-> last.plan.steps, vr |-> last.validation]}
  ELSE {}

\* the steps of a plan that violate the policy, and the j-th of them
Violating(steps, pol) == {k \in 1..Len(steps) : ~StepComplies(steps[k], pol)}
NthViolating(steps, pol, j) ==
  CHOOSE k \in Violating(steps, pol) :
    Cardinality({i \in Violating(steps, pol) : i < k}) = j - 1

\* C10: for a plan within the step ceiling, every step that violates the
\* policy gives one entry of rejected_steps, in plan order: as many entries
\* as violating steps, the j-th entry naming the j-th violating step
C10_EveryViolationListed ==
  \A v \in Validations :
    Len(v.steps) <= policy.planner.max_steps =>
      /\ Len(v.vr.rejected_steps) = Cardinality(Violating(v.steps, policy))
      /\ v.vr.validated = (Violating(v.steps, policy) = {})
      /\ \A j \in 1..Len(v.vr.rejected_steps) :
            LET step == v.steps[NthViolating(v.steps, policy, j)]
            IN  v.vr.rejected_steps[j] =
                  (IF ~StepAllowed(step, policy)
                   THEN <<"P", "l", "u", "g", "i", "n", " ", "'">> \o step.plugin \o <<"'", " ", "i", "s", " ", "n", "o", "t", " ", "a", "l", "l", "o", "w", "e", "d">>
                   ELSE <<"T", "a", "r", "g", "e", "t", " ", "'">> \o step.target \o <<"'", " ", "i", "s", " ", "o", "u", "t", "s", "i", "d", "e", " ", "p", "r", "o", "j", "e", "c", "t", " ", "r", "o", "o", "t">>)

\* a plan of two steps, the first with a plugin that is not allowed and the
\* second with a target outside the root: two entries, in that order
C10_Witness ==
  \E v \in Validations :
    /\ Len(v.steps) = 2
    /\ ~StepAllowed(v.steps[1], policy)
    /\ StepAllowed(v.steps[2], policy) /\ ~StepInside(v.steps[2], policy)
    /\ Len(v.vr.rejected_steps) = 2
    /\ Contains(v.vr.rejected_steps[1], <<"i", "s", " ", "n", "o", "t", " ", "a", "l", "l", "o", "w", "e", "d">>)
    /\ Contains(v.vr.rejected_steps[2], <<"i", "s", " ", "o", "u", "t", "s", "i", "d", "e", " ", "p", "r", "o", "j", "e", "c", "t", " ", "r", "o", "o", "t">>)

\* the PlanResult of the validate_plan call in progress, when it returned one
PlanResults ==
  IF ~Idle /\ last.op = "validate_plan" /\ ~last.validation.raised
  THEN {[steps |-> last.steps, vr |-> last.validation]}
  ELSE {}

\* C11: every PlanResult that validate_plan returns has validated true
\* exactly when rejected_steps is empty, for the empty plan, for plans within
\* the step ceiling and for over-long plans
C11_ValidatedIffNoRejection ==
  \A v \in PlanResults : v.vr.validated = (v.vr.rejected_steps = <<>>)

\* the three cases: an over-long plan (not validated, one rejection), the
\* empty plan (validated, none) and a plan of compliant steps (validated)
C11_Witness ==
  \E v \in PlanResults :
    /\ Len(v.steps) > policy.planner.max_steps
    /\ \A k \in 1..Len(v.steps) :
          ~InSeq(NUL, v.steps[k].target) /\ StepComplies(v.steps[k], policy)
    /\ ~v.vr.validated /\ v.vr.rejected_steps # <<>>

C11_WitnessEmptyPlan ==
  \E v \in PlanResults : v.steps = <<>> /\ v.vr.validated /\ policy.planner.max_steps = 0

\* the length rejection says "steps (max"; a step rejection never does
AboutLength(msg) == Contains(msg, <<" ", "s", "t", "e", "p", "s", " ", "(", "m", "a", "x", " ">>)

\* C12: a plan is rejected wholesale exactly when it has more steps than
\* planner.max_steps: then validate_plan returns (it raises nothing, whatever
\* the steps are), validated is false and rejected_steps is one message that
\* holds the step count and the maximum; a plan of at most max_steps steps
\* gets no rejection about its length
C12_WholesaleIffOverLong ==
  /\ (~Idle /\ last.op = "validate_plan" /\ Len(last.steps) > policy.planner.max_steps) =>
        /\ ~last.validation.raised
        /\ ~last.validation.validated
        /\ Len(last.validation.rejected_steps) = 1
        /\ AboutLength(last.validation.rejected_steps[1])
        /\ Contains(last.validation.rejected_steps[1],
                    <<"h", "a", "s", " ">> \o IntStr(Len(last.steps)) \o <<" ", "s", "t", "e", "p", "s">>)
        /\ Contains(last.validation.rejected_steps[1],
                    <<"m", "a", "x", " ">> \o IntStr(policy.planner.max_steps) \o <<")">>)
  /\ \A v \in PlanResults :
        Len(v.steps) <= policy.planner.max_steps =>
          \A j \in 1..Len(v.vr.rejected_steps) : ~AboutLength(v.vr.rejected_steps[j])

\* an over-long plan whose steps would each be rejected or fail to resolve:
\* one rejection, about the length
C12_Witness ==
  /\ ~Idle /\ last.op = "validate_plan"
  /\ Len(last.steps) = policy.planner.max_steps + 1
  /\ \E k \in 1..Len(last.steps) : ~StepAllowed(last.steps[k], policy)
  /\ \E k \in 1..Len(last.steps) :
        StepAllowed(last.steps[k], policy) /\ InSeq(NUL, last.steps[k].target)
  /\ Len(last.validation.rejected_steps) = 1

\* a plan of exactly max_steps steps, all compliant: validated
C12_WitnessAtCeiling ==
  \E v \in PlanResults :
    /\ Len(v.steps) = policy.planner.max_steps /\ Len(v.steps) > 0
    /\ v.vr.validated

\* the host a URL names: what stands between "://" and the next ":", "/",
\* "?" or "#"; an IPv6 address stands in brackets
UrlHost(url) ==
  LET marks == {i \in 1..Len(url) : Lit(url, i, <<":", "/", "/">>)}
      s == IF marks = {} THEN 1 ELSE Min(marks) + 3
      closes == {j \in s..Len(url) : url[j] = "]"}
      stops == {j \in s..Len(url) : url[j] \in {":", "/", "?", "#"}}
  IN  IF s <= Len(url) /\ url[s] = "[" /\ closes # {}
      THEN SubSeq(url, s, Min(closes))
      ELSE SubSeq(url, s, IF stops = {} THEN Len(url) ELSE Min(stops) - 1)

\* a host of the loopback interface: localhost, 127.0.0.0/8 or ::1
IsLoopbackHost(h) ==
  \/ LowerStr(h) = <<"l", "o", "c", "a", "l", "h", "o", "s", "t">>
  \/ h = <<"[", ":", ":", "1", "]">>
  \/ Lit(h, 1, <<"1", "2", "7", ".">>) /\ \A k \in 1..Len(h) : h[k] \in Digit \cup {"."}

\* the backend of the policy is reached at a loopback address: only the
\* ollama backend is addressed by base_url, the hosted ones have fixed URLs
AddressedAtLoopback(pol) ==
  pol.planner.backend = "ollama" /\ IsLoopbackHost(UrlHost(pol.planner.base_url))

\* the Planner.plan call in progress
PlanCall == ~Idle /\ last.op = "planner_plan"

\* C13: Planner.plan raises PlannerDisabledError whenever planner.enabled is
\* false, and PlanNetworkError whenever the planner is enabled, allow_network
\* is false and the backend is not addressed at a loopback address; in both
\* cases the backend is not called
C13_RefusedBeforeBackendCall ==
  PlanCall =>
    /\ ~policy.planner.enabled =>
          (last.raised /\ last.exc = "PlannerDisabledError" /\ ~last.called)
    /\ (policy.planner.enabled /\ ~policy.allow_network /\ ~AddressedAtLoopback(policy)) =>
          (last.raised /\ last.exc = "PlanNetworkError" /\ ~last.called)

\* C14: with the planner enabled and allow_network false, a backend that is
\* addressed at a loopback address passes the policy check: no
\* PlanNetworkError, and the backend is called
C14_LoopbackPasses ==
  (PlanCall /\ policy.planner.enabled /\ ~policy.allow_network /\ AddressedAtLoopback(policy)) =>
    (last.exc # "PlanNetworkError" /\ last.called)

\* C15: when Planner.plan calls the backend, the record with action
\* 'planner' and status 'request' that carries the task (its detail is the
\* redacted 'Task: <task>') is in the ledger, written before the call
\* started; it is there as well when the call raised and when the call never
\* completes
C15_RequestRecordedBeforeCall ==
  (PlanCall /\ last.called) =>
    /\ last.trace[1] = "audit" /\ last.trace[2] = "call"
    /\ Len(ledger) > last.before
    /\ ledger[last.before + 1].action = <<"p", "l", "a", "n", "n", "e", "r">>
    /\ ledger[last.before + 1].status = "request"
    /\ ledger[last.before + 1].detail = redact(<<"T", "a", "s", "k", ":", " ">> \o last.task)
    /\ (redact(last.task) = last.task => Contains(ledger[last.before + 1].detail, last.task))

\* a backend call that never completes, after a request record that holds
\* the task word for word
C15_Witness ==
  /\ PlanCall /\ last.called /\ Hung
  /\ Len(ledger) = last.before + 1
  /\ ledger[Len(ledger)].status = "request"
  /\ Contains(ledger[Len(ledger)].detail, last.task)

\* the same for a backend call that raised
C15_WitnessFailed ==
  /\ PlanCall /\ last.called /\ last.raised /\ last.exc = "PlanConnectionError"
  /\ ledger[Len(ledger)].status = "request"

\* C16: a Planner.plan call that reached the backend call and ended has
\* appended, after its request record, one further 'planner' record: status
\* 'ok' and 'Generated n step(s)' for the n steps of the plan it returns, a
\* failure record when the backend call or the parsing failed
C16_OutcomeRecorded ==
  (PlanCall /\ last.called /\ ~Hung) =>
    /\ Len(ledger) = last.before + 2
    /\ ledger[last.before + 2].action = <<"p", "l", "a", "n", "n", "e", "r">>
    /\ IF last.raised
       THEN ledger[last.before + 2].status \notin {"ok", "request"}
       ELSE /\ ledger[last.before + 2].status = "ok"
            /\ ledger[last.before + 2].detail =
                 <<"G", "e", "n", "e", "r", "a", "t", "e", "d", " ">> \o IntStr(Len(last.steps)) \o <<" ", "s", "t", "e", "p", "(", "s", ")">>

\* a raw response that is a plan: a JSON object whose "steps" value is a list
\* of step records, each with a plugin and a target
IsPlanText(raw) ==
  /\ raw.form = "json"
  /\ raw.data.t = "object"
  /\ raw.data.has_steps
  /\ raw.data.steps.t = "list"
  /\ \A k \in 1..Len(raw.data.steps.items) : WellFormedItem(raw.data.steps.items[k])

\* C17: for a raw response that is empty, is no JSON, is no object with a
\* "steps" key, or whose "steps" value is no list of well-formed step records,
\* _parse_plan_json raises PlanParseError with raw_response equal to the raw
\* text; no other kind of error leaves it
C17_OnlyPlanParseError ==
  (~Idle /\ last.op = "parse_plan_json") =>
    /\ last.out.raised => last.out.exc = "PlanParseError"
    /\ ~IsPlanText(last.raw) =>
          /\ last.out.raised
          /\ last.out.exc = "PlanParseError"
          /\ last.out.raw_response = last.raw

\* the redact call in progress
RedactCall == ~Idle /\ last.op = "redact"

\* C18: redact is idempotent, redact(redact(t)) = redact(t) for every text
\* t: every rule leaves the output of redact as it is, and so redact does;
\* every rule leaves every marker [REDACTED:NAME] as it is (the markers are
\* the same in every state: they are looked at between two calls)
C18_RedactIdempotent ==
  /\ RedactCall =>
        /\ \A j \in 1..Len(PATTERNS) : SubFrom(j, last.out, 1) = last.out
        /\ redact(last.out) = last.out
  /\ Idle =>
        \A j \in 1..Len(PATTERNS), k \in 1..Len(PATTERNS) : SubFrom(j, Marker(k), 1) = Marker(k)

\* a text with secrets of two patterns and a marker already in it: the
\* output holds three markers and redacting it again changes nothing
C18_Witness ==
  /\ RedactCall
  /\ last.text = SecretOpenAI \o Marker(3) \o SecretKeyBlock
  /\ last.out = Marker(1) \o Marker(3) \o Marker(7)

\* pattern.sub on the origins of the characters: o[x] is the position in the
\* input of redact of the x-th character of t, 0 for a character of a marker
RECURSIVE SubOrigins(_, _, _, _)
SubOrigins(k, t, o, i) ==
  LET starts == {j \in i..Len(t) : MatchEnd(k, t, j) > 0}
  IN  IF starts = {} THEN SubSeq(o, i, Len(o))
      ELSE LET j == Min(starts)
           IN  SubSeq(o, i, j - 1) \o [x \in 1..Len(Marker(k)) |-> 0]
                 \o SubOrigins(k, t, o, MatchEnd(k, t, j))

RECURSIVE OriginsFrom(_, _, _)
OriginsFrom(k, t, o) ==
  IF k > Len(PATTERNS) THEN o
  ELSE OriginsFrom(k + 1, SubFrom(k, t, 1), SubOrigins(k, t, o, 1))

\* the positions of the input whose characters stand in redact(text)
Kept(text) ==
  LET o == OriginsFrom(1, text, [i \in 1..Len(text) |-> i])
  IN  {o[x] : x \in 1..Len(o)} \ {0}

\* C19: for every pattern, every substring of the input that matches it is
\* replaced by a marker: none of its characters stands in redact(input),
\* whatever else matches in or around it
C19_EveryMatchReplaced ==
  RedactCall =>
    LET kept == Kept(last.text)
    IN  \A k \in 1..Len(PATTERNS), i \in 1..Len(last.text) :
          MatchEnd(k, last.text, i) > 0 =>
            \A p \in i..(MatchEnd(k, last.text, i) - 1) : p \notin kept

\* the bearer token that redact leaves: 'Bearer Bearer abc.def=' has the
\* match 'Bearer abc.def=', and its token stands in the output
C19_TokenLeft ==
  /\ RedactCall
  /\ last.text = L_Bearer \o <<" ">> \o SecretBearer
  /\ last.out = Marker(6) \o SubSeq(SecretBearer, Len(L_Bearer) + 1, Len(SecretBearer))

\* the private key that redact leaves: after 'Bearer ' the BEGIN line of a
\* key block is taken for a token, and the key stands in the output
C19_KeyLeft ==
  /\ RedactCall
  /\ last.text = L_Bearer \o <<" ">> \o SecretKeyBlock
  /\ Contains(last.out, <<"M", "I", "I", "B">>)

\* the lines of the ledger file
LedgerLines == LinesFrom(FileText(ledger), 1)

\* the whole line of call w is in the file
HasWritten(c) == c.pc \in {"close", "closed"} /\ c.f = NewFile

\* C20: while several calls of write_audit run at the same time, the file
\* ends at a line end, every line is the whole record of a call that has
\* written, and the record of each call that has written is there once, the
\* record of a call that has not is not there
C20_WholeLinesOnly ==
  WriterCalls # <<>> =>
    LET text == FileText(ledger)
    IN  /\ text = <<>> \/ text[Len(text)] = "\n"
        /\ \A k \in 1..Len(LedgerLines) :
             \E w \in 1..Len(WriterCalls) :
               /\ HasWritten(WriterCalls[w])
               /\ LedgerLines[k] = dumps(WriterCalls[w].record)
        /\ \A w \in 1..Len(WriterCalls) :
             WriterCalls[w].record # <<>> =>
               Cardinality({k \in 1..Len(LedgerLines) : LedgerLines[k] = dumps(WriterCalls[w].record)})
                 = Cardinality({v \in 1..Len(WriterCalls) :
                                  /\ HasWritten(WriterCalls[v])
                                  /\ WriterCalls[v].record = WriterCalls[w].record})

\* two calls at a time, one with a line larger than the buffer and one with
\* a line that fits it; the call that came second and stamped its record
\* second has its line first in the file, and the first has written too
C20_Witness ==
  /\ Len(WriterCalls) = 2
  /\ Finished(WriterCalls[1]) /\ Finished(WriterCalls[2])
  /\ Len(dumps(WriterCalls[1].record)) + 1 > BufferSize
  /\ Len(dumps(WriterCalls[2].record)) + 1 < BufferSize
  /\ WriterCalls[1].record.timestamp < WriterCalls[2].record.timestamp
  /\ Len(ledger) = 2
  /\ ledger[1] = WriterCalls[2].record
  /\ ledger[2] = WriterCalls[1].record

\* a line of exactly the size of the buffer is written whole
C20_WitnessBufferFull ==
  /\ \E w \in 1..Len(WriterCalls) :
       /\ HasWritten(WriterCalls[w])
       /\ Len(dumps(WriterCalls[w].record)) + 1 = BufferSize
  /\ Len(ledger) = 2

\* C21: a request whose Authorization header is not 'Bearer ' followed by the
\* token of the project is answered 401 and changes nothing: no record is
\* appended, no directory or file is made, no plugin runs, no plan is asked
\* for; on every endpoint
C21_UnauthorizedNoEffect ==
  [][(last.op = "none" /\ last'.op = "request" /\ last'.header # <<"B", "e", "a", "r", "e", "r", " ">> \o app.token)
       => /\ last'.status = 401
          /\ last'.runs = <<>>
          /\ ~last'.planned
          /\ ~last'.plan.called
          /\ UNCHANGED << policy, dirExists, ledgerExists, ledger, clock, tokenFile, app >>]_vars

\* POST /run of an allowed plugin on a ledger that has records, with a
\* header that starts with the right one: 401
C21_Witness ==
  /\ last.op = "request"
  /\ last.endpoint = <<"/", "r", "u", "n">>
  /\ last.header = <<"B", "e", "a", "r", "e", "r", " ">> \o app.token \o <<"x">>
  /\ last.status = 401
  /\ last.runs = <<>>
  /\ ledger # <<>>
  /\ Len(ledger) = last.before

\* POST /plan and every page with a header that is not the right one
C21_WitnessPlan ==
  /\ last.op = "request"
  /\ last.endpoint = <<"/", "p", "l", "a", "n">>
  /\ last.header = <<"b", "e", "a", "r", "e", "r", " ">> \o app.token
  /\ last.status = 401
  /\ policy.planner.enabled

\* the policy in force was built from a source without an allow-list
FromSourceWithout(field) ==
  \E data \in PolicySources : field \notin DOMAIN data /\ policy = PolicyOf(data)

\* C22: a field the source omits gets its most restrictive value: network
\* and shell denied, no plugin allowed, planner and dashboard disabled; and
\* under a policy whose source names no allow-list every run_plugin call
\* returns a refusal, is recorded as denied, and invokes no plugin
C22_AbsentFieldsDeny ==
  /\ \A data \in PolicySources :
        /\ "allow_network" \notin DOMAIN data => ~PolicyOf(data).allow_network
        /\ "allow_shell" \notin DOMAIN data => ~PolicyOf(data).allow_shell
        /\ "allowed_plugins" \notin DOMAIN data => PolicyOf(data).allowed_plugins = <<>>
        /\ "planner" \notin DOMAIN data => ~PolicyOf(data).planner.enabled
        /\ "dashboard_enabled" \notin DOMAIN data => ~PolicyOf(data).dashboard_enabled
  /\ FromSourceWithout("allowed_plugins") =>
        \A k \in 1..Len(Runs) :
          /\ ~Runs[k].invoked
          /\ ~Runs[k].raised
          /\ ~Runs[k].result.ok
          /\ Runs[k].after = Runs[k].before + 1
          /\ RecordOf(Runs[k]).status = "denied"

\* under the policy of an empty source, the registered plugin todo_scan on
\* the project directory is refused
C22_Witness ==
  /\ policy = PolicyOf(<< >>)
  /\ ~policy.allow_network /\ ~policy.allow_shell /\ policy.allowed_plugins = <<>>
  /\ ~policy.planner.enabled /\ ~policy.dashboard_enabled
  /\ last.op = "run_plugin"
  /\ Runs[1].plugin_name = <<"t", "o", "d", "o", "_", "s", "c", "a", "n">>
  /\ Runs[1].target_path = <<".", "/">>
  /\ ~Runs[1].invoked
  /\ RecordOf(Runs[1]).status = "denied"
  /\ Len(ledger) = 2

DedupCall == last.op = "deduplicate_plugins"

\* the place of the first occurrence of x in v
FirstAt(x, v) == Min({i \in 1..Len(v) : v[i] = x})

\* C23: the allow-list built from a list of names holds every name of the
\* list, each once, in the order of their first occurrences, and nothing
\* else; the validator leaves its own result as it is
C23_FirstOccurrencesInOrder ==
  DedupCall =>
    /\ {last.out[i] : i \in 1..Len(last.out)} = {last.v[i] : i \in 1..Len(last.v)}
    /\ \A i \in 1..Len(last.out), j \in 1..Len(last.out) :
          i < j => /\ last.out[i] # last.out[j]
                   /\ FirstAt(last.out[i], last.v) < FirstAt(last.out[j], last.v)
    /\ deduplicate_plugins(last.out) = last.out
    /\ PolicyOf([allowed_plugins |-> last.v]).allowed_plugins = last.out

\* [todo_scan, ghost, todo_scan] gives [todo_scan, ghost]
C23_Witness ==
  /\ DedupCall
  /\ last.v = << <<"t", "o", "d", "o", "_", "s", "c", "a", "n">>, <<"g", "h", "o", "s", "t">>, <<"t", "o", "d", "o", "_", "s", "c", "a", "n">> >>
  /\ last.out = << <<"t", "o", "d", "o", "_", "s", "c", "a", "n">>, <<"g", "h", "o", "s", "t">> >>

\* C24: on a project without a ledger file, read_audit returns the empty
\* list without raising and makes no directory and no file; write_audit
\* returns, the directory and the file exist afterwards, and the ledger is
\* the one record of the event, its detail redacted
C24_FirstUse ==
  [][(last.op = "none" /\ ~ledgerExists)
       => /\ last'.op = "read_audit"
               => /\ ~last'.raised
                  /\ last'.entries = <<>>
                  /\ UNCHANGED << dirExists, ledgerExists, ledger, tokenFile >>
          /\ last'.op = "write_audit"
               => /\ dirExists' /\ ledgerExists'
                  /\ Len(ledger') = 1
                  /\ ledger'[1].action = last'.event.action
                  /\ ledger'[1].status = last'.event.status
                  /\ ledger'[1].detail = redact(last'.event.detail)
                  /\ ledger'[1].touched_files = last'.event.touched_files
                  /\ ledger'[1].timestamp = clock]_vars

\* the first write_audit of a project, of an event with a private key in
\* its detail: the ledger is that one record
C24_Witness ==
  /\ last.op = "write_audit"
  /\ last.before = 0
  /\ last.event.detail = SecretKeyBlock
  /\ dirExists /\ ledgerExists
  /\ Len(ledger) = 1
  /\ ledger[1].detail = Marker(7)

\* read_audit with the directory .safeclaw there and no ledger in it
C24_WitnessRead ==
  /\ last.op = "read_audit"
  /\ dirExists /\ ~ledgerExists
  /\ ~last.raised
  /\ last.entries = <<>>
  /\ last.last_n > 0

\* C25: no operation changes the Policy: after every step of run_plugin, of
\* the planner, of the plan command (validate_plan, run_plan and the plugins
\* they invoke) and of the dashboard handlers every field of the Policy is
\* what it was, and the policy each run_plugin call of the step was given is
\* that same Policy
C25_PolicyNeverMutated ==
  [][/\ policy' = policy
     /\ last'.op # "none" =>
          \A k \in 1..Len(last'.runs) : last'.runs[k].policy = policy]_vars

\* a second operation, after a plugin was invoked by the first: the plugin
\* of the allow-list is invoked again under the policy that was loaded
C25_Witness ==
  /\ policy \in Policies
  /\ Len(ledger) > 1
  /\ ~Idle
  /\ Len(Runs) > 0
  /\ Runs[1].before > 0
  /\ Runs[1].invoked
  /\ Runs[1].policy = policy
  /\ \E k \in 1..Runs[1].before : ledger[k].action = Runs[1].plugin_name /\ ledger[k].status = "ok"

\* the one record of run number k tells this refusal and nothing else
RefusedAs(r, status, msg) ==
  /\ ~r.raised
  /\ ~r.invoked
  /\ r.result = RunResult(FALSE, msg, <<>>)
  /\ r.after = r.before + 1
  /\ RecordOf(r).action = r.plugin_name
  /\ RecordOf(r).status = status
  /\ RecordOf(r).detail = redact(msg)

\* C26: run_plugin tests allow-list, registry and path in that order and
\* reports the first test that fails: a name outside the allow-list is
\* 'denied' as not in the allowed list, registered or not, whatever the
\* target; a name of the allow-list that is not registered is an 'error' as
\* not registered, whatever the target; only then a target outside the root
\* is 'denied' as outside
C26_FirstFailingCheckReported ==
  \A k \in 1..Len(Runs) :
    /\ ~GateAllowed(Runs[k]) =>
          RefusedAs(Runs[k], "denied", MsgNotAllowed(Runs[k].plugin_name))
    /\ (GateAllowed(Runs[k]) /\ ~GateRegistered(Runs[k])) =>
          RefusedAs(Runs[k], "error", MsgNotRegistered(Runs[k].plugin_name))
    /\ (GateAllowed(Runs[k]) /\ GateRegistered(Runs[k])
          /\ GateResolvable(Runs[k]) /\ ~GateInside(Runs[k])) =>
          RefusedAs(Runs[k], "denied",
                    MsgOutside(Resolve(ParsePath(Runs[k].target_path)), root_path(Runs[k].policy)))

\* a name that is neither in the allow-list nor registered, with a target
\* outside the root: denied as not in the allowed list
C26_Witness ==
  /\ last.op = "run_plugin"
  /\ ~GateAllowed(Runs[1]) /\ ~GateRegistered(Runs[1])
  /\ GateResolvable(Runs[1]) /\ ~GateInside(Runs[1])
  /\ RecordOf(Runs[1]).status = "denied"
  /\ Contains(Runs[1].result.message, <<"i", "s", " ", "n", "o", "t", " ", "i", "n", " ", "t", "h", "e", " ", "a", "l", "l", "o", "w", "e", "d", " ", "l", "i", "s", "t">>)

\* a name of the allow-list that is not registered, with a target outside
\* the root: an error, as not registered
C26_WitnessUnregistered ==
  /\ last.op = "run_plugin"
  /\ GateAllowed(Runs[1]) /\ ~GateRegistered(Runs[1])
  /\ GateResolvable(Runs[1]) /\ ~GateInside(Runs[1])
  /\ RecordOf(Runs[1]).status = "error"
  /\ Contains(Runs[1].result.message, <<"i", "s", " ", "n", "o", "t", " ", "r", "e", "g", "i", "s", "t", "e", "r", "e", "d">>)

\* C27: within the step ceiling each step is put to both tests on its own:
\* rejected_steps has one entry for every step whose plugin is not allowed
\* and one more for every step whose target resolves outside the root, so a
\* step that fails both gives two entries, a step that fails one gives one
\* and a compliant step none
C27_BothChecksPerStep ==
  \A v \in PlanResults :
    (/\ Len(v.steps) <= policy.planner.max_steps
     /\ \A k \in 1..Len(v.steps) : ~InSeq(NUL, v.steps[k].target)) =>
      Len(v.vr.rejected_steps)
        = Cardinality({k \in 1..Len(v.steps) : ~StepAllowed(v.steps[k], policy)})
          + Cardinality({k \in 1..Len(v.steps) : ~StepInside(v.steps[k], policy)})

\* the one entry of a step that fails both tests: it names the plugin, and
\* no entry names the target
C27_OnlyPluginNamed ==
  \E v \in PlanResults :
    /\ Len(v.steps) = 1
    /\ ~StepAllowed(v.steps[1], policy) /\ ~StepInside(v.steps[1], policy)
    /\ v.vr.rejected_steps = << MsgStepNotAllowed(v.steps[1].plugin) >>

\* C28: when the plugin returns (message, touched_files), run_plugin appends
\* one record with the plugin name as action, status 'ok', the redacted
\* message as detail and the plugin's list as touched_files, and returns
\* RunResult(ok=true) with the message and the list of the plugin; and of
\* every call that returns, ok is true exactly when its record says 'ok'
C28_SuccessRecordedAndReturned ==
  \A k \in 1..Len(Runs) :
    /\ (Runs[k].invoked /\ Runs[k].plugin.kind = "ok") =>
          /\ RunReturned(k)
          /\ Runs[k].after = Runs[k].before + 1
          /\ RecordOf(Runs[k]).action = Runs[k].plugin_name
          /\ RecordOf(Runs[k]).status = "ok"
          /\ RecordOf(Runs[k]).detail = redact(Runs[k].plugin.text)
          /\ RecordOf(Runs[k]).touched_files = Runs[k].plugin.touched
          /\ Runs[k].result = RunResult(TRUE, Runs[k].plugin.text, Runs[k].plugin.touched)
    /\ RunReturned(k) =>
          /\ Runs[k].after = Runs[k].before + 1
          /\ Runs[k].result.ok <=> (RecordOf(Runs[k]).status = "ok")
          /\ Runs[k].result.ok <=> (Runs[k].invoked /\ Runs[k].plugin.kind = "ok")

\* a plugin that returned a message and the file it read
C28_Witness ==
  /\ last.op = "run_plugin"
  /\ Runs[1].invoked /\ Runs[1].plugin.kind = "ok"
  /\ Runs[1].plugin.touched # <<>>
  /\ Runs[1].result.ok
  /\ RecordOf(Runs[1]).status = "ok"
  /\ RecordOf(Runs[1]).touched_files = Runs[1].result.touched_files

\* a plugin that returned a message with a key in it: the result has the
\* message, the record has it redacted
C28_WitnessSecret ==
  /\ last.op = "run_plugin"
  /\ Runs[1].result.ok
  /\ Contains(Runs[1].result.message, SecretOpenAI)
  /\ RecordOf(Runs[1]).detail # Runs[1].result.message

\* a call that returned not ok after its plugin was invoked, with a record
\* that says 'error'
C28_WitnessNotOk ==
  /\ last.op = "run_plugin"
  /\ Runs[1].invoked /\ RunReturned(1) /\ ~Runs[1].result.ok
  /\ RecordOf(Runs[1]).status = "error"

\* C29: an authenticated POST /run of a plugin outside the allow-list is
\* answered 403, the plugin is not invoked, and the ledger gets a record
\* of the refused attempt with status 'denied'
C29_RefusedRunRecordedDenied ==
  (last.op = "request" /\ last.endpoint = <<"/", "r", "u", "n">> /\ last.status = 403) =>
    /\ last.runs = <<>>
    /\ \E i \in (last.before + 1)..Len(ledger) : ledger[i].status = "denied"

\* what the refused POST /run leaves: no run_plugin call, and one record,
\* the 'ok' record of the request itself
C29_OnlyRequestRecorded ==
  /\ last.op = "request" /\ last.endpoint = <<"/", "r", "u", "n">> /\ last.status = 403
  /\ last.header = <<"B", "e", "a", "r", "e", "r", " ">> \o app.token
  /\ last.runs = <<>>
  /\ Len(ledger) = last.before + 1
  /\ ledger[Len(ledger)].action = <<"d", "a", "s", "h", "b", "o", "a", "r", "d">>
  /\ ledger[Len(ledger)].status = "ok"

\* the plan command in progress, under a policy that requires confirmation
ConfirmedPlanCmd ==
  ~Idle /\ last.op = "plan_cmd" /\ policy.planner.require_confirmation

\* C30 as stated: under require_confirmation the plan command with --auto
\* always exits with an error and executes nothing
C30_AutoAlwaysAnError ==
  (ConfirmedPlanCmd /\ last.auto) => (last.exit # "done" /\ Runs = <<>>)

\* C30: under require_confirmation the plan command executes steps only
\* after the user was asked and answered yes; with --auto it asks nothing
\* and executes nothing, and unless it is a dry run it exits with an error;
\* after a negative answer it executes nothing
C30_ConfirmationGuardsExecution ==
  ConfirmedPlanCmd =>
    /\ Runs # <<>> => (last.prompted /\ last.confirm /\ ~last.auto)
    /\ last.auto =>
          /\ Runs = <<>>
          /\ ~last.prompted
          /\ ~last.dry_run => last.exit # "done"
          /\ (last.checked /\ last.validation.validated /\ ~last.dry_run) => last.exit = "exit1"
    /\ (last.prompted /\ ~last.confirm) => (Runs = <<>> /\ last.exit = "done")
    /\ last.prompted => (last.checked /\ last.validation.validated /\ ~last.dry_run /\ ~last.auto)

\* --auto on a validated plan of at least one step, no dry run: exit 1,
\* nothing asked, nothing run
C30_Witness ==
  /\ ConfirmedPlanCmd
  /\ last.auto /\ ~last.dry_run
  /\ last.checked /\ last.validation.validated /\ last.steps # <<>>
  /\ last.exit = "exit1"
  /\ ~last.prompted
  /\ Runs = <<>>

\* the user says no to a validated plan
C30_WitnessNo ==
  /\ ConfirmedPlanCmd
  /\ last.prompted /\ ~last.confirm /\ last.steps # <<>>
  /\ Runs = <<>>

\* the user says yes and the steps run
C30_WitnessYes ==
  /\ ConfirmedPlanCmd
  /\ last.prompted /\ last.confirm
  /\ Runs # <<>>

\* --auto with --dry-run on a validated plan: the command ends normally
C30_WitnessDryRun ==
  /\ ConfirmedPlanCmd
  /\ last.auto /\ last.dry_run
  /\ last.checked /\ last.validation.validated
  /\ last.exit = "done"
  /\ Runs = <<>>
====
